---- MODULE Spec2Model ----
(***************************************************************************)
(* Off-season FW inventory dashboard (pastseason-hk): the data             *)
(* normalisation and season-bucketing pipeline of utils.ts and the load    *)
(* path of OffSeasonInventoryDashboard.tsx.                                *)
(*                                                                         *)
(* Strings are sequences of one-character strings, so that trimming,       *)
(* slicing and scanning are computed as the code computes them.            *)
(*                                                                         *)
(* Specifications:                                                         *)
(*   Spec        loadAndNormalizeData on drawn files                       *)
(*   SpecDash    the dashboard's loadData effect on drawn props and files  *)
(*   SpecLoads   either of the two loads                                   *)
(*   SpecAnyOrder  the PY and CY loops of a load, interleaved row by row   *)
(*   SpecSeason  parseSeason and isOffSeasonFW on drawn inputs             *)
(*   SpecFx      applyFxNormalization and normalizeGraphDataRow on drawn   *)
(*               raw rows                                                  *)
(*   SpecCsv     parseCSV on texts built from drawn lines                  *)
(*   SpecHeader  parseCSV on longer texts whose header may stay open       *)
(*   SpecLine    parseCSVLine on every short line                          *)
(*   SpecDecode  parseNumber, parseCSVRow and the target row decoder on    *)
(*               drawn cells and mappings                                  *)
(*   SpecEffect  the dashboard's load effect run again while earlier       *)
(*               invocations of loadData are under way                     *)
(*   SpecSettled SpecEffect where every awaited fetch settles              *)
(*   SpecApp     the App component: default files and uploads              *)
(***************************************************************************)
EXTENDS Integers, Sequences, FiniteSets, TLC

VARIABLES
    \* --- season classifier (parseSeason, isOffSeasonFW) ---
    seasonCodeRaw,   \* argument of parseSeason: a string, or Absent
    refYear,         \* argument currentFwYear of parseSeason
    seasonInfo,      \* the SeasonInfo returned, NoInfo before the call
    probeRow,        \* a row handed to isOffSeasonFW
    offSeason,       \* the boolean isOffSeasonFW returned
    spc,             \* position: start, parsed, filtered, probed
    \* --- FX normaliser (applyFxNormalization) ---
    fxRaw,           \* argument row: an InventoryRowRaw
    fxRow,           \* the InventoryRow returned, NoFxRow before the call
    fxGraphRaw,      \* argument of normalizeGraphDataRow: a GraphDataRowRaw
    fxGraph,         \* the GraphDataRow returned, NoFxRow before the call
    fpc,             \* position: start, normalized, graphNormalized
    \* --- CSV tokenizer (parseCSV) ---
    csvText,          \* argument of parseCSV
    lines,            \* the non-blank lines of csvText
    headerEndIndex,   \* index (from 0) of the first data line
    headerLines,      \* the lines collected into the header
    inQuotes,         \* the header scan's open-quote state
    currentLineIndex, \* index (from 0) of the next line the header may take
    cleanedHeaders,   \* the header names
    rows,             \* the row mappings emitted so far
    rowIndex,         \* index (from 0) of the next data line
    cpc,              \* position: start, scan, extend, data, done
    \* --- field tokenizer (parseCSVLine) ---
    tokLine,          \* argument of parseCSVLine
    tokValues,        \* the fields returned
    tpc,              \* position: start, tokenized
    \* --- loadAndNormalizeData ---
    ldYear,           \* argument currentFwYear
    pyFile,           \* what pyFilePath serves: [status, rows]
    cyFile,           \* what cyFilePath serves: [status, rows]
    pyFetch,          \* loadCSVFile(pyFilePath): idle, pending, text, thrown
    cyFetch,          \* loadCSVFile(cyFilePath): idle, pending, text, thrown
    fetches,          \* how many times each path has been fetched
    ldPyRows,         \* pyRows
    ldCyRows,         \* cyRows
    allRows,          \* allRows
    ldIndex,          \* rows of the current loop already taken
    lpc,              \* position: start, fetching, decodePY, decodeCY,
                      \* returned, rejected
    \* --- OffSeasonInventoryDashboard: props, state and one loadData ---
    props,            \* pyRowsRaw, cyRowsRaw, pyFilePath, cyFilePath, currentFwYear
    data,             \* useState data
    graphData,        \* useState graphData
    targetData,       \* useState targetData
    loading,          \* useState loading
    error,            \* useState error: "null" or the message
    dPyFetch,         \* fetch(pyFilePath).then(r => r.text()): idle, pending, text, thrown
    dCyFetch,         \* fetch(cyFilePath).then(r => r.text())
    dPyRows,          \* the PY row mappings loadData decodes
    dCyRows,          \* the CY row mappings loadData decodes
    dAllRows,         \* loadData's allRows
    dIndex,           \* rows of the current loop already taken
    graphFile,        \* what the graph CSV path served
    targetFile,       \* what the target CSV path served
    dpc,              \* position: start, fetching, decodePY, decodeCY, graph,
                      \* target, done
    \* --- primitive parsers and the row decoder (parseNumber, parseCSVRow) ---
    decValue,         \* argument of parseNumber: a string, or Absent
    decNumber,        \* the number parseNumber returned
    decRow,           \* argument of parseCSVRow: a header-keyed row mapping
    decRaw,           \* the InventoryRowRaw parseCSVRow returned
    decTarget,        \* the TargetDataRow the target decoder returned
    dcpc,             \* position: number, row, targetRow, parsed, decoded,
                      \* targetDecoded
    \* --- the two inventory loops of a load, run in any order ---
    ivYear,           \* currentFwYear
    ivPyRows,         \* pyRows
    ivCyRows,         \* cyRows
    ivPyIndex,        \* PY rows already taken
    ivCyIndex,        \* CY rows already taken
    ivRows,           \* allRows
    ivpc,             \* position: decoding, returned
    \* --- the dashboard's load effect, run once per render that changes ---
    \* --- its dependencies                                           ---
    invocations,      \* the loadData invocations started so far, each with
                      \* its props, its position and its local results
    \* --- App: the default-file load and the uploads ---
    pyRowsRaw,        \* useState pyRowsRaw: undefined, or the parsed rows
    cyRowsRaw,        \* useState cyRowsRaw
    pyFileName,       \* useState pyFileName
    cyFileName,       \* useState cyFileName
    appError,         \* useState error: "null" or the message
    appLoading,       \* useState loading
    defaultLoad,      \* loadDefaultFiles: idle, fetching, done
    reading           \* the FileReader reads under way: [file, type]

seasonVars == <<seasonCodeRaw, refYear, seasonInfo, probeRow, offSeason, spc>>
fxVars     == <<fxRaw, fxRow, fxGraphRaw, fxGraph, fpc>>
csvVars    == <<csvText, lines, headerEndIndex, headerLines, inQuotes,
                currentLineIndex, cleanedHeaders, rows, rowIndex, cpc>>

tokVars    == <<tokLine, tokValues, tpc>>

loadVars   == <<ldYear, pyFile, cyFile, pyFetch, cyFetch, fetches,
                ldPyRows, ldCyRows, allRows, ldIndex, lpc>>

dashVars   == <<props, data, graphData, targetData, loading, error, dPyFetch,
                dCyFetch, dPyRows, dCyRows, dAllRows, dIndex, graphFile,
                targetFile, dpc>>
decVars    == <<decValue, decNumber, decRow, decRaw, decTarget, dcpc>>
ivVars     == <<ivYear, ivPyRows, ivCyRows, ivPyIndex, ivCyIndex, ivRows, ivpc>>
effVars    == <<invocations>>
appVars    == <<pyRowsRaw, cyRowsRaw, pyFileName, cyFileName, appError,
                appLoading, defaultLoad, reading>>

vars == <<seasonVars, fxVars, csvVars, tokVars, loadVars, dashVars, decVars, ivVars, effVars, appVars>>

----------------------------------------------------------------------------
(* Bounds *)

MaxCodeLen == 3

\* physical lines of a drawn CSV text
MaxCsvLines == 3

\* characters of a line handed to the field tokenizer
MaxLineLen == 6

\* characters of a cell handed to parseNumber
MaxCellLen == 4

\* rows of a drawn inventory file
MaxFileRows == 2

\* physical lines of a drawn CSV text whose header may stay open
MaxHeaderTextLines == 7

----------------------------------------------------------------------------
(* Strings *)

RECURSIVE StringsUpTo(_, _)
StringsUpTo(alphabet, n) ==
    IF n = 0 THEN {<< >>}
    ELSE LET shorter == StringsUpTo(alphabet, n - 1)
         IN  shorter \cup {Append(s, c) : s \in shorter, c \in alphabet}

\* a value of type string | null | undefined that is null or undefined
Absent == <<"null">>

\* value ?? ''
Coalesce(value) == IF value = Absent THEN << >> ELSE value

\* the whitespace String.prototype.trim removes, of the characters modelled
IsSpace(c) == c = " " \/ c = "\t" \/ c = "\r" \/ c = "\n"

RECURSIVE TrimStart(_)
TrimStart(s) ==
    IF s # << >> /\ IsSpace(Head(s)) THEN TrimStart(Tail(s)) ELSE s

RECURSIVE TrimEnd(_)
TrimEnd(s) ==
    IF s # << >> /\ IsSpace(s[Len(s)]) THEN TrimEnd(SubSeq(s, 1, Len(s) - 1)) ELSE s

\* String.prototype.trim
Trim(s) == TrimEnd(TrimStart(s))

DigitChars == {"0", "1", "2", "3", "4", "5", "6", "7", "8", "9"}

DigitVal(c) ==
    CASE c = "0" -> 0 [] c = "1" -> 1 [] c = "2" -> 2 [] c = "3" -> 3
      [] c = "4" -> 4 [] c = "5" -> 5 [] c = "6" -> 6 [] c = "7" -> 7
      [] c = "8" -> 8 [] c = "9" -> 9

\* /^\d+$/.test(s)
AllDigits(s) == s # << >> /\ \A i \in 1..Len(s) : s[i] \in DigitChars

\* parseInt(s, 10) of a string of digits
RECURSIVE ParseIntDigits(_)
ParseIntDigits(s) ==
    IF s = << >> THEN 0
    ELSE 10 * ParseIntDigits(SubSeq(s, 1, Len(s) - 1)) + DigitVal(s[Len(s)])

----------------------------------------------------------------------------
(* Season classifier *)

SeasonTypes == {"FW", "S", "ACC", "OTHER"}
YearBuckets == {"InSeason", "Y1", "Y2", "Y3Plus"}

\* seasonYear: null
NullYear == -1

\* a discriminator without the N branch
SeasonTypeOfSuffixNoAcc(suffix) ==
    IF suffix = "F" THEN "FW"
    ELSE IF suffix = "S" THEN "S"
    ELSE "OTHER"

\* lines 101-104: the type discriminator
SeasonTypeOfSuffix(suffix) ==
    IF suffix = "F" THEN "FW"
    ELSE IF suffix = "S" THEN "S"
    ELSE IF suffix = "N" THEN "ACC"
    ELSE "OTHER"

\* line 99: the year part
YearOfPart(yearPart) ==
    IF AllDigits(yearPart) THEN ParseIntDigits(yearPart) ELSE NullYear

\* a ladder whose steps are one year late
YearBucketOfOffByOne(seasonType, year, currentFwYear) ==
    LET diff == currentFwYear - year
    IN  IF seasonType = "FW" /\ year # NullYear
        THEN IF diff <= 1 THEN "InSeason"
             ELSE IF diff = 2 THEN "Y1"
             ELSE IF diff = 3 THEN "Y2"
             ELSE "Y3Plus"
        ELSE "InSeason"

\* a ladder that does not ask for the FW type
YearBucketOfAnyType(seasonType, year, currentFwYear) ==
    LET diff == currentFwYear - year
    IN  IF year # NullYear
        THEN IF diff <= 0 THEN "InSeason"
             ELSE IF diff = 1 THEN "Y1"
             ELSE IF diff = 2 THEN "Y2"
             ELSE "Y3Plus"
        ELSE "InSeason"

\* lines 106-120: the year bucket
YearBucketOf(seasonType, year, currentFwYear) ==
    LET diff == currentFwYear - year
    IN  IF seasonType = "FW" /\ year # NullYear
        THEN IF diff <= 0 THEN "InSeason"
             ELSE IF diff = 1 THEN "Y1"
             ELSE IF diff = 2 THEN "Y2"
             ELSE "Y3Plus"
        ELSE "InSeason"

parseSeason(seasonCodeRaw_, currentFwYear) ==
    LET seasonCode == Trim(Coalesce(seasonCodeRaw_))
        suffix     == seasonCode[Len(seasonCode)]
        yearPart   == SubSeq(seasonCode, 1, Len(seasonCode) - 1)
        year       == YearOfPart(yearPart)
        seasonType == SeasonTypeOfSuffix(suffix)
        yearBucket == YearBucketOf(seasonType, year, currentFwYear)
    IN  IF seasonCode = << >>
        THEN [seasonCode |-> << >>, seasonType |-> "OTHER",
              seasonYear |-> NullYear, yearBucket |-> "InSeason"]
        ELSE [seasonCode |-> seasonCode, seasonType |-> seasonType,
              seasonYear |-> year, yearBucket |-> yearBucket]

\* a filter that does not ask for the FW type
isOffSeasonFWAnyPast(row) ==
    LET info == row.seasonInfo
    IN  info.yearBucket = "Y1" \/ info.yearBucket = "Y2" \/ info.yearBucket = "Y3Plus"

\* lines 185-191
isOffSeasonFW(row) ==
    LET info == row.seasonInfo
    IN  /\ info.seasonType = "FW"
        /\ (info.yearBucket = "Y1" \/ info.yearBucket = "Y2" \/ info.yearBucket = "Y3Plus")

----------------------------------------------------------------------------
(* Numbers: the amounts the pipeline computes with, as exact fractions      *)
(* num/den with den > 0 in lowest terms; den = 0 is null.                   *)

RECURSIVE Gcd(_, _)
Gcd(a, b) == IF b = 0 THEN a ELSE Gcd(b, a % b)

Abs(x) == IF x < 0 THEN 0 - x ELSE x

\* the fraction n/d, d # 0, in lowest terms with a positive denominator
Rat(n, d) ==
    LET g == Gcd(Abs(n), Abs(d))
        sgn == IF d < 0 THEN 0 - 1 ELSE 1
    IN  [num |-> sgn * (n \div g), den |-> sgn * (d \div g)]

NullNum == [num |-> 0, den |-> 0]

RatDiv(a, b) == Rat(a.num * b.den, a.den * b.num)
RatMul(a, b) == Rat(a.num * b.num, a.den * b.den)
RatSub(a, b) == Rat(a.num * b.den - b.num * a.den, a.den * b.den)
RatPos(a)    == a.num > 0

----------------------------------------------------------------------------
(* Primitive parsers and the inventory row decoder *)

RECURSIVE Pow10(_)
Pow10(k) == IF k = 0 THEN 1 ELSE 10 * Pow10(k - 1)

\* the longest prefix of s made of digits
RECURSIVE DigitPrefix(_)
DigitPrefix(s) ==
    IF s # << >> /\ s[1] \in DigitChars THEN <<s[1]>> \o DigitPrefix(Tail(s)) ELSE << >>

\* parseFloat(s), for s without leading whitespace or exponent: the longest
\* prefix sign? digits* (. digits*)? with a digit in it, or NaN (NullNum)
ParseFloat(s) ==
    LET signed   == s # << >> /\ s[1] \in {"-", "+"}
        negative == s # << >> /\ s[1] = "-"
        body     == IF signed THEN Tail(s) ELSE s
        int      == DigitPrefix(body)
        rest     == SubSeq(body, Len(int) + 1, Len(body))
        frac     == IF rest # << >> /\ rest[1] = "."
                    THEN DigitPrefix(Tail(rest)) ELSE << >>
        mag      == Rat(ParseIntDigits(int) * Pow10(Len(frac)) + ParseIntDigits(frac),
                        Pow10(Len(frac)))
    IN  IF int = << >> /\ frac = << >> THEN NullNum
        ELSE IF negative THEN Rat(0 - mag.num, mag.den) ELSE mag

\* s.replace(/,/g, '')
RemoveCommas(s) == SelectSeq(s, LAMBDA c : c # ",")

\* s.replace(/\s+/g, '')
RemoveSpaces(s) == SelectSeq(s, LAMBDA c : ~IsSpace(c))

\* a parser that hands on parseFloat's NaN
parseNumberKeepsNaN(value) ==
    IF value = Absent \/ value = << >> THEN Rat(0, 1)
    ELSE ParseFloat(RemoveSpaces(RemoveCommas(Trim(value))))

\* lines 6-11
parseNumber(value) ==
    IF value = Absent \/ value = << >> THEN Rat(0, 1)
    ELSE LET cleaned == RemoveSpaces(RemoveCommas(Trim(value)))
             parsed  == ParseFloat(cleaned)
         IN  IF parsed = NullNum THEN Rat(0, 1) ELSE parsed

\* lines 16-18
parseString(value) == Trim(Coalesce(value))

LowerChars == <<"a", "b", "c", "d", "e", "f", "g", "h", "i", "j", "k", "l", "m",
                "n", "o", "p", "q", "r", "s", "t", "u", "v", "w", "x", "y", "z">>
UpperChars == <<"A", "B", "C", "D", "E", "F", "G", "H", "I", "J", "K", "L", "M",
                "N", "O", "P", "Q", "R", "S", "T", "U", "V", "W", "X", "Y", "Z">>

\* String.prototype.toUpperCase
toUpperCase(s) ==
    [i \in 1..Len(s) |->
        IF \E k \in 1..Len(LowerChars) : LowerChars[k] = s[i]
        THEN UpperChars[CHOOSE k \in 1..Len(LowerChars) : LowerChars[k] = s[i]]
        ELSE s[i]]

\* row[column]: the cell, or undefined when the mapping has no such column
Cell(row, column) == IF column \in DOMAIN row THEN row[column] ELSE Absent

\* a || b || c on cells: the first that is neither undefined nor empty, else the last
FirstTruthy(a, b, c) ==
    IF a # Absent /\ a # << >> THEN a
    ELSE IF b # Absent /\ b # << >> THEN b
    ELSE c

\* lines 23-81
parseCSVRow(row, sourceYearType_) ==
    LET country == toUpperCase(parseString(Cell(row, "Country")))
        itemDesc2 == parseString(Cell(row, "ITEM DESC2"))
    IN  [period           |-> parseString(Cell(row, "period")),
         country          |-> country,
         exRate           |-> parseNumber(Cell(row, "Ex-rate")),
         itemCode         |-> parseString(Cell(row, "ITEM CODE")),
         itemDesc1        |-> parseString(Cell(row, "ITEM DESC1")),
         itemDesc2        |-> IF itemDesc2 = << >> THEN Absent ELSE itemDesc2,
         storeCode        |-> parseString(Cell(row, "STORE")),
         storeName        |-> parseString(Cell(row, "STORE NAME")),
         salesDiv         |-> parseString(Cell(row, "SALES DIV")),
         season           |-> parseString(Cell(row, "SEASON")),
         brand            |-> parseString(Cell(row, "BRAND")),
         brandName        |-> parseString(Cell(row, "BRAND NAME")),
         category         |-> parseString(Cell(row, "CATEGORY")),
         categoryName     |-> parseString(Cell(row, "CATEGORY NAME")),
         subcategory      |-> parseString(Cell(row, "SUBCATEGORY")),
         subcategoryName  |-> parseString(Cell(row, "SUBCATEGORY NAME")),
         salesQty         |-> parseNumber(Cell(row, "Sales (Qty)")),
         acSalesQty       |-> parseNumber(Cell(row, "AC Sales (Qty)")),
         stockQty         |-> parseNumber(Cell(row, "Stock (Qty)")),
         netAcPC          |-> parseNumber(Cell(row, "Net AcP.C")),
         netAcPP          |-> parseNumber(Cell(row, "Net AcP.P")),
         acSalesCost      |-> parseNumber(FirstTruthy(
                                  Cell(row, "AC Sales\n(Cost)"),
                                  Cell(row, "AC Sales (Cost)"),
                                  Cell(row, "AC Sales\r\n(Cost)"))),
         acSalesNetAmount |-> parseNumber(FirstTruthy(
                                  Cell(row, "AC Sales\n(Net Amount)"),
                                  Cell(row, "AC Sales (Net Amount)"),
                                  Cell(row, "AC Sales\r\n(Net Amount)"))),
         acSalesGross     |-> parseNumber(FirstTruthy(
                                  Cell(row, "AC Sales\n(Gross Sales)"),
                                  Cell(row, "AC Sales (Gross Sales)"),
                                  Cell(row, "AC Sales\r\n(Gross Sales)"))),
         grossSalesMonth  |-> parseNumber(Cell(row, "Gross Sales ($)")),
         netSalesMonth    |-> parseNumber(Cell(row, "Net Sales ($)")),
         cogsMonth        |-> parseNumber(Cell(row, "COGS ($)")),
         stockCost        |-> parseNumber(Cell(row, "Stock Cost ($)")),
         stockPriceTag    |-> parseNumber(Cell(row, "Stock Price ($)")),
         sourceYearType   |-> sourceYearType_]

----------------------------------------------------------------------------
(* FX normaliser *)

\* the country codes the code names
HK == <<"H", "K">>
MC == <<"M", "C">>
TW == <<"T", "W">>

\* a rate table with the MC rate for TW
FxRateOfTWAsMC(country) ==
    IF country = HK THEN Rat(1, 1)
    ELSE IF country = MC THEN Rat(103, 100)
    ELSE IF country = TW THEN Rat(103, 100)
    ELSE Rat(1, 1)

\* lines 135-143: the rate table
FxRateOf(country) ==
    IF country = HK THEN Rat(1, 1)
    ELSE IF country = MC THEN Rat(103, 100)
    ELSE IF country = TW THEN Rat(402, 100)
    ELSE Rat(1, 1)

\* lines 146-149: applyFx, closed over country and fxRate
applyFx(country, fxRate, value) ==
    IF country = HK THEN value ELSE RatDiv(value, fxRate)

\* a discount rate that is 0 where there are no sales
DiscountRateOfZeroWhenNoSales(grossSalesFx, netSalesFx) ==
    IF RatPos(grossSalesFx)
    THEN RatSub(Rat(1, 1), RatDiv(netSalesFx, grossSalesFx))
    ELSE Rat(0, 1)

\* lines 161 and 429
DiscountRateOf(grossSalesFx, netSalesFx) ==
    IF RatPos(grossSalesFx)
    THEN RatSub(Rat(1, 1), RatDiv(netSalesFx, grossSalesFx))
    ELSE NullNum

applyFxNormalization(row, seasonInfo_) ==
    LET country == row.country
        fxRate  == FxRateOf(country)
        grossSalesFx == applyFx(country, fxRate, row.grossSalesMonth)
        netSalesFx   == applyFx(country, fxRate, row.netSalesMonth)
    IN  [fxRate             |-> fxRate,
         grossSalesFx       |-> grossSalesFx,
         netSalesFx         |-> netSalesFx,
         stockPriceFx       |-> applyFx(country, fxRate, row.stockPriceTag),
         stockCostFx        |-> applyFx(country, fxRate, row.stockCost),
         acSalesGrossFx     |-> applyFx(country, fxRate, row.acSalesGross),
         netAcPPFx          |-> applyFx(country, fxRate, row.netAcPP),
         acSalesCostFx      |-> applyFx(country, fxRate, row.acSalesCost),
         acSalesNetAmountFx |-> applyFx(country, fxRate, row.acSalesNetAmount),
         cogsFx             |-> applyFx(country, fxRate, row.cogsMonth),
         discountRateMonth  |-> DiscountRateOf(grossSalesFx, netSalesFx),
         seasonInfo         |-> seasonInfo_] @@ row

----------------------------------------------------------------------------
(* CSV tokenizer *)

\* line 248: the header takes at most this many lines
MaxHeaderLines == 5

Quote  == "\""
SQuote == "'"
Comma  == ","
LF     == "\n"
CR     == "\r"

\* a tokenizer that splits on every comma, quoted or not
RECURSIVE ParseLineFromSplitInQuotes(_, _, _, _, _)
ParseLineFromSplitInQuotes(line, i, values, currentValue, inQ) ==
    IF i > Len(line)
    THEN [values |-> Append(values, Trim(currentValue)), inQuotes |-> inQ]
    ELSE LET char     == line[i]
             nextChar == IF i < Len(line) THEN line[i + 1] ELSE ""
         IN  IF char = Quote
             THEN IF inQ /\ nextChar = Quote
                  THEN ParseLineFromSplitInQuotes(line, i + 2, values,
                                     Append(currentValue, Quote), inQ)
                  ELSE ParseLineFromSplitInQuotes(line, i + 1, values, currentValue, ~inQ)
             ELSE IF char = Comma
                  THEN ParseLineFromSplitInQuotes(line, i + 1,
                                     Append(values, Trim(currentValue)), << >>, inQ)
                  ELSE ParseLineFromSplitInQuotes(line, i + 1, values,
                                     Append(currentValue, char), inQ)

\* lines 201-222: the tokenizer's loop from position i (from 1), and the
\* values and quote state it ends with
RECURSIVE ParseLineFrom(_, _, _, _, _)
ParseLineFrom(line, i, values, currentValue, inQ) ==
    IF i > Len(line)
    THEN [values |-> Append(values, Trim(currentValue)), inQuotes |-> inQ]
    ELSE LET char     == line[i]
             nextChar == IF i < Len(line) THEN line[i + 1] ELSE ""
         IN  IF char = Quote
             THEN IF inQ /\ nextChar = Quote
                  THEN ParseLineFrom(line, i + 2, values,
                                     Append(currentValue, Quote), inQ)
                  ELSE ParseLineFrom(line, i + 1, values, currentValue, ~inQ)
             ELSE IF char = Comma /\ ~inQ
                  THEN ParseLineFrom(line, i + 1,
                                     Append(values, Trim(currentValue)), << >>, inQ)
                  ELSE ParseLineFrom(line, i + 1, values,
                                     Append(currentValue, char), inQ)

\* lines 196-223
parseCSVLine(line) == ParseLineFrom(line, 1, << >>, << >>, FALSE).values

\* the tokenizer's inQuotes when it reaches the end of the line
LineEndsInQuotes(line) == ParseLineFrom(line, 1, << >>, << >>, FALSE).inQuotes

\* lines 240-244 and 250-254: the header's quote scan of one line, from
\* position i (from 1), starting in state inQ
RECURSIVE ScanQuotes(_, _, _)
ScanQuotes(line, i, inQ) ==
    IF i > Len(line) THEN inQ
    ELSE ScanQuotes(line, i + 1,
                    IF line[i] = Quote /\ (i = 1 \/ line[i - 1] # Quote)
                    THEN ~inQ ELSE inQ)

\* csvText.split(/\r?\n/): the pieces between line breaks
RECURSIVE SplitFrom(_, _, _)
SplitFrom(text, i, piece) ==
    IF i > Len(text) THEN <<piece>>
    ELSE IF text[i] = LF
         THEN <<piece>> \o SplitFrom(text, i + 1, << >>)
         ELSE IF text[i] = CR /\ i < Len(text) /\ text[i + 1] = LF
              THEN <<piece>> \o SplitFrom(text, i + 2, << >>)
              ELSE SplitFrom(text, i + 1, Append(piece, text[i]))

\* a split that keeps the blank lines
SplitLinesKeepsBlank(text) == SplitFrom(text, 1, << >>)

\* line 230
SplitLines(text) ==
    SelectSeq(SplitFrom(text, 1, << >>), LAMBDA line : Trim(line) # << >>)

\* headerLines.join(' ')
RECURSIVE JoinWith(_, _)
JoinWith(ls, sep) ==
    IF ls = << >> THEN << >>
    ELSE IF Len(ls) = 1 THEN ls[1]
    ELSE ls[1] \o sep \o JoinWith(Tail(ls), sep)

\* cleaned.replace(/\r?\n/g, ' ')
RECURSIVE ReplaceBreaks(_)
ReplaceBreaks(s) ==
    IF s = << >> THEN << >>
    ELSE IF s[1] = LF THEN <<" ">> \o ReplaceBreaks(Tail(s))
    ELSE IF s[1] = CR /\ Len(s) >= 2 /\ s[2] = LF
         THEN <<" ">> \o ReplaceBreaks(SubSeq(s, 3, Len(s)))
    ELSE <<s[1]>> \o ReplaceBreaks(Tail(s))

\* lines 266-276: one header name cleaned
CleanHeader(h) ==
    LET trimmed  == Trim(h)
        wrapped  == /\ trimmed # << >>
                    /\ \/ (trimmed[1] = Quote /\ trimmed[Len(trimmed)] = Quote)
                       \/ (trimmed[1] = SQuote /\ trimmed[Len(trimmed)] = SQuote)
        unquoted == IF wrapped THEN SubSeq(trimmed, 2, Len(trimmed) - 1) ELSE trimmed
    IN  Trim(ReplaceBreaks(unquoted))

\* lines 260-276
CleanedHeadersOf(hLines) ==
    LET headers == parseCSVLine(JoinWith(hLines, <<" ">>))
    IN  [k \in 1..Len(headers) |-> CleanHeader(headers[k])]

\* a row mapping that leaves out the headers past the last value
RowOfValuesOnly(headers, values) ==
    LET given == {k \in 1..Len(headers) : k <= Len(values)}
    IN  [h \in {headers[k] : k \in given} |->
            values[CHOOSE k \in given :
                       /\ headers[k] = h
                       /\ \A j \in given : j > k => headers[j] # h]]

\* lines 288-291: the row mapping of tokenized values; a later header of the
\* same name overwrites an earlier one
RowOf(headers, values) ==
    [h \in {headers[k] : k \in 1..Len(headers)} |->
        LET last == CHOOSE k \in 1..Len(headers) :
                        /\ headers[k] = h
                        /\ \A j \in (k + 1)..Len(headers) : headers[j] # h
        IN  IF last <= Len(values) THEN values[last] ELSE << >>]

\* an acceptance test that allows no missing field
AcceptsStrict(headers, values) == Len(values) >= Len(headers)

\* line 287: whether a tokenized data line is accepted
Accepts(headers, values) == Len(values) >= Len(headers) - 1

----------------------------------------------------------------------------
(* Inventory load *)

\* null in the place of a row mapping (a row list handed over as a prop may
\* hold one; parseCSV returns none)
NullRow == [null |-> TRUE]

\* whether decoding the row throws: row['Country'] of null is a TypeError;
\* on a mapping of strings no step of the decoders throws
Throws(row) == row = NullRow

\* a loop that puts each row in front of the rows pushed so far
PushUnlessThrownInFront(out, row, normalized) ==
    IF Throws(row) THEN out ELSE <<normalized>> \o out

\* a loop whose catch gives up the rows pushed so far
PushUnlessThrownDropsBatch(out, row, normalized) ==
    IF Throws(row) THEN << >> ELSE Append(out, normalized)

\* lines 330-337, 342-349, 454-460 and 506-512: the try block pushes the
\* normalised row; the catch logs a warning and the loop goes on
PushUnlessThrown(out, row, normalized) ==
    IF Throws(row) THEN out ELSE Append(out, normalized)

\* a decoder that tags every row CY
NormalizedRowTaggedCY(row, sourceYearType_, referenceYear) ==
    LET raw == parseCSVRow(row, "CY")
    IN  applyFxNormalization(raw, parseSeason(raw.season, referenceYear))

\* the body of the try blocks of lines 330-334 and 342-346 (and of the
\* dashboard's loops): decode, classify against a reference year, normalise
NormalizedRow(row, sourceYearType_, referenceYear) ==
    LET raw == parseCSVRow(row, sourceYearType_)
    IN  applyFxNormalization(raw, parseSeason(raw.season, referenceYear))

\* lines 332 and 344: the reference year of each file's rows
LoaderReferenceYear(sourceYearType_, currentFwYear) == currentFwYear

\* a load that reads both sources against 25
DashReferenceYearAlways25(sourceYearType_) == 25

\* lines 103/134 and 114/145: the reference year of each source's rows
DashReferenceYear(sourceYearType_) == IF sourceYearType_ = "PY" THEN 24 ELSE 25

\* lines 217-222: filteredData
filteredDataOf(data_) ==
    SelectSeq(data_, LAMBDA row :
        (row.country = HK \/ row.country = MC) /\ isOffSeasonFW(row))

\* lines 272-273: the rows of filteredData of each source
cyOffSeasonFWOf(filteredData_) ==
    SelectSeq(filteredData_, LAMBDA row : row.sourceYearType = "CY")

pyOffSeasonFWOf(filteredData_) ==
    SelectSeq(filteredData_, LAMBDA row : row.sourceYearType = "PY")

\* lines 666-668: the rows the stagnant-stock table is built from
cyFilteredOf(filteredData_) ==
    SelectSeq(filteredData_, LAMBDA row :
        /\ row.sourceYearType = "CY"
        /\ isOffSeasonFW(row)
        /\ (row.country = HK \/ row.country = MC))

----------------------------------------------------------------------------
(* The dashboard's aggregates over graph rows: which rows each one sums *)

MO == <<"M", "O">>

\* lines 539 and 607
months == 6..12

\* n.toString() of a month number
MonthToString(n) ==
    LET digit(d) == CHOOSE c \in DigitChars : DigitVal(c) = d
    IN  IF n < 10 THEN <<digit(n)>> ELSE <<digit(n \div 10), digit(n % 10)>>

\* s.padStart(2, '0')
PadStart2(s) == IF Len(s) = 0 THEN <<"0", "0">>
                ELSE IF Len(s) = 1 THEN <<"0">> \o s ELSE s

\* lines 544 and 546, 612: the period of a month of the previous and of the
\* current year
pyPeriodOf(month) == <<"2", "4">> \o PadStart2(MonthToString(month))

cyPeriodOf(month) == <<"2", "5">> \o PadStart2(MonthToString(month))

\* lines 551-556: the rows summed into a month's previous-year sales
pyRowsOf(graphData_, month) ==
    SelectSeq(graphData_, LAMBDA row :
        /\ row.period = pyPeriodOf(month)
        /\ (row.country = HK \/ row.country = MC \/ row.country = MO)
        /\ isOffSeasonFW(row))

\* a selection by period and country alone
cyRowsAnySeason(graphData_, month) ==
    SelectSeq(graphData_, LAMBDA row :
        /\ row.period = cyPeriodOf(month)
        /\ (row.country = HK \/ row.country = MC \/ row.country = MO))

\* lines 560-565 and 616-621: the rows summed into a month's current-year
\* sales, and the rows its stock figures are taken from
cyRowsOf(graphData_, month) ==
    SelectSeq(graphData_, LAMBDA row :
        /\ row.period = cyPeriodOf(month)
        /\ (row.country = HK \/ row.country = MC \/ row.country = MO)
        /\ isOffSeasonFW(row))

\* lines 624-632: the rows summed into a month's y1Stock, y2Stock and
\* y3PlusStock
monthlyStockRowsOf(graphData_, month) ==
    SelectSeq(cyRowsOf(graphData_, month), LAMBDA row :
        \/ row.seasonInfo.yearBucket = "Y1"
        \/ row.seasonInfo.yearBucket = "Y2"
        \/ row.seasonInfo.yearBucket = "Y3Plus")

\* lines 759-764 (nov2511, dec2512), and lines 1059-1064 and 1075-1080 of the
\* category analysis, which has the same filter: the rows of one period
\* handed to the sums
targetPeriodRowsOf(graphData_, period_) ==
    SelectSeq(graphData_, LAMBDA row :
        /\ row.period = period_
        /\ (row.country = HK \/ row.country = MO)
        /\ isOffSeasonFW(row))

\* lines 785-791: calculate adds a row to the bucket it names, if result has
\* that bucket
calculateRowsOf(rows_) ==
    SelectSeq(rows_, LAMBDA row :
        row.seasonInfo.yearBucket \in {"Y1", "Y2", "Y3Plus", "InSeason"})

\* lines 1065-1072 and 1081-1090 of the category analysis: a row is added
\* when result has its bucket (and its category, which only narrows this)
categoryRowsOf(rows_) ==
    SelectSeq(rows_, LAMBDA row :
        row.seasonInfo.yearBucket \in {"Y1", "Y2", "Y3Plus"})

----------------------------------------------------------------------------
(* Graph and target rows *)

\* parseInt(s, 10): [nan, val], the integer of the longest prefix
\* whitespace* sign? digits+
ParseInt(s) ==
    LET t        == TrimStart(s)
        signed   == t # << >> /\ t[1] \in {"-", "+"}
        negative == t # << >> /\ t[1] = "-"
        digits   == DigitPrefix(IF signed THEN Tail(t) ELSE t)
    IN  IF digits = << >> THEN [nan |-> TRUE, val |-> 0]
        ELSE [nan |-> FALSE,
              val |-> IF negative THEN 0 - ParseIntDigits(digits)
                      ELSE ParseIntDigits(digits)]

\* s.substring(0, 2)
Substring02(s) == SubSeq(s, 1, IF Len(s) < 2 THEN Len(s) ELSE 2)

\* lines 358-369
parseGraphCSVRow(row) ==
    [Period      |-> parseString(Cell(row, "Period")),
     Year        |-> parseString(Cell(row, "Year")),
     Season_Code |-> parseString(Cell(row, "Season_Code")),
     Gross_Sales |-> parseNumber(Cell(row, "Gross_Sales")),
     Net_Sales   |-> parseNumber(Cell(row, "Net_Sales")),
     Stock_Price |-> parseNumber(Cell(row, "Stock_Price")),
     Stock_Cost  |-> parseNumber(Cell(row, "Stock_Cost")),
     Country     |-> toUpperCase(parseString(Cell(row, "Country")))]

\* a reference year that does not look at the period
GraphReferenceYearAlways25(periodYear) == 25

\* line 402: the reference year of a graph row
GraphReferenceYear(periodYear) ==
    IF ~periodYear.nan /\ periodYear.val = 24 THEN 24 ELSE 25

\* lines 383-395: the calendar year of a graph row
GraphYear(periodYear, yearColumn) ==
    IF ~periodYear.nan /\ periodYear.val >= 24 /\ periodYear.val <= 99
    THEN 2000 + periodYear.val
    ELSE IF ~periodYear.nan /\ periodYear.val >= 0 /\ periodYear.val < 24
    THEN 2000 + periodYear.val
    ELSE LET year == ParseInt(yearColumn)
         IN  IF year.nan \/ year.val = 0 THEN 2025 ELSE year.val

\* lines 378-444
normalizeGraphDataRow(raw) ==
    LET country      == raw.Country
        periodYear   == ParseInt(Substring02(raw.Period))
        fxRate       == FxRateOf(country)
        grossSalesFx == applyFx(country, fxRate, raw.Gross_Sales)
        netSalesFx   == applyFx(country, fxRate, raw.Net_Sales)
    IN  [period       |-> raw.Period,
         year         |-> GraphYear(periodYear, raw.Year),
         seasonCode   |-> raw.Season_Code,
         grossSalesFx |-> grossSalesFx,
         netSalesFx   |-> netSalesFx,
         stockPriceFx |-> applyFx(country, fxRate, raw.Stock_Price),
         stockCostFx  |-> applyFx(country, fxRate, raw.Stock_Cost),
         country      |-> country,
         seasonInfo   |-> parseSeason(raw.Season_Code,
                                      GraphReferenceYear(periodYear)),
         discountRate |-> DiscountRateOf(grossSalesFx, netSalesFx)] @@ raw

\* lines 453-461: the loop of parseGraphCSV from row k (from 1)
RECURSIVE GraphLoopFrom(_, _, _)
GraphLoopFrom(rows_, k, graphData_) ==
    IF k > Len(rows_) THEN graphData_
    ELSE GraphLoopFrom(rows_, k + 1,
             PushUnlessThrown(graphData_, rows_[k],
                              normalizeGraphDataRow(parseGraphCSVRow(rows_[k]))))

\* lines 449-464, on the row mappings parseCSV returned
parseGraphCSV(rows_) == GraphLoopFrom(rows_, 1, << >>)

\* lines 471-479
parseTargetCSVRow(row) ==
    [PERIOD      |-> parseString(Cell(row, "PERIOD")),
     SEASON_NAME |-> parseString(Cell(row, "SEASON_NAME")),
     SEASON      |-> parseString(Cell(row, "SEASON")),
     CATEGORY    |-> parseString(Cell(row, "CATEGORY")),
     AMOUNT      |-> parseNumber(Cell(row, "AMOUNT"))]

\* lines 484-496
normalizeTargetDataRow(raw, currentFwYear) ==
    [period     |-> raw.PERIOD,
     seasonName |-> raw.SEASON_NAME,
     season     |-> raw.SEASON,
     category   |-> raw.CATEGORY,
     amount     |-> raw.AMOUNT,
     seasonInfo |-> parseSeason(raw.SEASON, currentFwYear)]

\* lines 505-513: the loop of parseTargetCSV from row k (from 1)
RECURSIVE TargetLoopFrom(_, _, _, _)
TargetLoopFrom(rows_, k, result, currentFwYear) ==
    IF k > Len(rows_) THEN result
    ELSE TargetLoopFrom(rows_, k + 1,
             PushUnlessThrown(result, rows_[k],
                              normalizeTargetDataRow(parseTargetCSVRow(rows_[k]),
                                                     currentFwYear)),
             currentFwYear)

\* lines 501-516, on the row mappings parseCSV returned
parseTargetCSV(rows_, currentFwYear) == TargetLoopFrom(rows_, 1, << >>, currentFwYear)

----------------------------------------------------------------------------
(* Each specification drives one part of the program and holds the         *)
(* variables of the other parts at their idle values.                      *)

NoInfo == [seasonCode |-> << >>, seasonType |-> "none",
           seasonYear |-> NullYear, yearBucket |-> "none"]
NoRow  == [seasonInfo |-> NoInfo]

SeasonIdle ==
    /\ seasonCodeRaw = << >>
    /\ refYear = 25
    /\ seasonInfo = NoInfo
    /\ probeRow = NoRow
    /\ offSeason = FALSE
    /\ spc = "idle"

NoFxRaw == [country |-> << >>]
NoFxRow == [country |-> << >>]

FxIdle ==
    /\ fxRaw = NoFxRaw
    /\ fxRow = NoFxRow
    /\ fxGraphRaw = NoFxRaw
    /\ fxGraph = NoFxRow
    /\ fpc = "idle"

CsvIdle ==
    /\ csvText = << >>
    /\ lines = << >>
    /\ headerEndIndex = 1
    /\ headerLines = << >>
    /\ inQuotes = FALSE
    /\ currentLineIndex = 1
    /\ cleanedHeaders = << >>
    /\ rows = << >>
    /\ rowIndex = 0
    /\ cpc = "idle"

TokIdle ==
    /\ tokLine = << >>
    /\ tokValues = << >>
    /\ tpc = "idle"

NoFile == [status |-> "none", rows |-> << >>]

NoProps == [pyGiven |-> FALSE, pyRowsRaw |-> << >>,
            cyGiven |-> FALSE, cyRowsRaw |-> << >>,
            pathsGiven |-> FALSE, pyFile |-> NoFile, cyFile |-> NoFile,
            currentFwYear |-> 25]

\* lines 83-87: the state a mounted dashboard starts with
DashMounted ==
    /\ data = << >>
    /\ graphData = << >>
    /\ targetData = << >>
    /\ loading = TRUE
    /\ error = "null"
    /\ dPyFetch = "idle"
    /\ dCyFetch = "idle"
    /\ dPyRows = << >>
    /\ dCyRows = << >>
    /\ dAllRows = << >>
    /\ dIndex = 0
    /\ graphFile = NoFile
    /\ targetFile = NoFile

DashIdle ==
    /\ props = NoProps
    /\ DashMounted
    /\ dpc = "idle"

NoRaw == [sourceYearType |-> "none"]

DecIdle ==
    /\ decValue = << >>
    /\ decNumber = Rat(0, 1)
    /\ decRow = << >>
    /\ decRaw = NoRaw
    /\ decTarget = NoRaw
    /\ dcpc = "idle"

IvIdle ==
    /\ ivYear = 25
    /\ ivPyRows = << >>
    /\ ivCyRows = << >>
    /\ ivPyIndex = 0
    /\ ivCyIndex = 0
    /\ ivRows = << >>
    /\ ivpc = "idle"

EffectIdle == invocations = << >>

\* a row list that is undefined, and one that is set
Undefined == [given |-> FALSE, rows |-> << >>]
Defined(rows_) == [given |-> TRUE, rows |-> rows_]

AppIdle ==
    /\ pyRowsRaw = Undefined
    /\ cyRowsRaw = Undefined
    /\ pyFileName = ""
    /\ cyFileName = ""
    /\ appError = "null"
    /\ appLoading = TRUE
    /\ defaultLoad = "idle"
    /\ reading = {}

LoadIdle ==
    /\ ldYear = 25
    /\ pyFile = NoFile
    /\ cyFile = NoFile
    /\ pyFetch = "idle"
    /\ cyFetch = "idle"
    /\ fetches = [PY |-> 0, CY |-> 0]
    /\ ldPyRows = << >>
    /\ ldCyRows = << >>
    /\ allRows = << >>
    /\ ldIndex = 0
    /\ lpc = "idle"

----------------------------------------------------------------------------
(* SpecSeason: the season classifier and the off-season predicate applied  *)
(* to drawn inputs.                                                        *)

SeasonChars == {"2", "4", "5", "F", "S", "N", "X", " "}
SeasonCodes == StringsUpTo(SeasonChars, MaxCodeLen) \cup {Absent}
RefYears    == 22..28

\* the variables the season specification leaves alone
SeasonOthers == <<fxVars, csvVars, tokVars, loadVars, dashVars, decVars, ivVars, effVars, appVars>>

InitSeason ==
    /\ AppIdle
    /\ EffectIdle
    /\ IvIdle
    /\ DecIdle
    /\ FxIdle
    /\ CsvIdle
    /\ TokIdle
    /\ LoadIdle
    /\ DashIdle
    /\ seasonCodeRaw \in SeasonCodes
    /\ refYear \in RefYears
    /\ seasonInfo = NoInfo
    /\ probeRow = NoRow
    /\ offSeason = FALSE
    /\ spc = "start"

\* parseSeason(seasonCodeRaw, refYear)
ParseSeasonCall ==
    /\ spc = "start"
    /\ seasonInfo' = parseSeason(seasonCodeRaw, refYear)
    /\ spc' = "parsed"
    /\ UNCHANGED <<seasonCodeRaw, refYear, probeRow, offSeason>>
    /\ UNCHANGED SeasonOthers

\* isOffSeasonFW on the row carrying the SeasonInfo parseSeason returned
OffSeasonOfParsed ==
    /\ spc = "parsed"
    /\ probeRow' = [seasonInfo |-> seasonInfo]
    /\ offSeason' = isOffSeasonFW(probeRow')
    /\ spc' = "filtered"
    /\ UNCHANGED <<seasonCodeRaw, refYear, seasonInfo>>
    /\ UNCHANGED SeasonOthers

\* isOffSeasonFW on a row of any (seasonType, yearBucket) pair of the types
OffSeasonOfAny ==
    /\ spc = "start"
    /\ \E t \in SeasonTypes, b \in YearBuckets :
          probeRow' = [seasonInfo |-> [seasonCode |-> Coalesce(seasonCodeRaw),
                                       seasonType |-> t,
                                       seasonYear |-> NullYear,
                                       yearBucket |-> b]]
    /\ offSeason' = isOffSeasonFW(probeRow')
    /\ spc' = "probed"
    /\ UNCHANGED <<seasonCodeRaw, refYear, seasonInfo>>
    /\ UNCHANGED SeasonOthers

NextSeason == ParseSeasonCall \/ OffSeasonOfParsed \/ OffSeasonOfAny

SpecSeason == InitSeason /\ [][NextSeason]_vars

----------------------------------------------------------------------------
(* SpecFx: applyFxNormalization applied to drawn raw rows.                 *)

FxCountries == {HK, MC, TW, <<"M", "O">>, <<"h", "k">>, << >>}

\* the amounts each monetary field of a drawn raw row may hold
FxAmounts ==
    [grossSalesMonth  |-> {Rat(0, 1), Rat(1000, 1), Rat(0 - 206, 1), Rat(2469, 2)},
     netSalesMonth    |-> {Rat(0, 1), Rat(900, 1), Rat(1100, 1)},
     stockPriceTag    |-> {Rat(0, 1), Rat(201, 1)},
     stockCost        |-> {Rat(0, 1), Rat(103, 1)},
     acSalesGross     |-> {Rat(0, 1), Rat(804, 1)},
     netAcPP          |-> {Rat(0, 1), Rat(0 - 7, 1)},
     acSalesCost      |-> {Rat(0, 1), Rat(11, 1)},
     acSalesNetAmount |-> {Rat(0, 1), Rat(13, 1)},
     cogsMonth        |-> {Rat(0, 1), Rat(17, 1)}]

FxRawRows ==
    [country          : FxCountries,
     grossSalesMonth  : FxAmounts.grossSalesMonth,
     netSalesMonth    : FxAmounts.netSalesMonth,
     stockPriceTag    : FxAmounts.stockPriceTag,
     stockCost        : FxAmounts.stockCost,
     acSalesGross     : FxAmounts.acSalesGross,
     netAcPP          : FxAmounts.netAcPP,
     acSalesCost      : FxAmounts.acSalesCost,
     acSalesNetAmount : FxAmounts.acSalesNetAmount,
     cogsMonth        : FxAmounts.cogsMonth,
     sourceYearType   : {"CY"}]

\* the variables the FX specification leaves alone
FxOthers == <<seasonVars, csvVars, tokVars, loadVars, dashVars, decVars, ivVars, effVars, appVars>>

\* the raw graph rows drawn for normalizeGraphDataRow
FxGraphRawRows ==
    [Period      : {<<"2", "4", "1", "2">>, <<"2", "5", "1", "2">>, << >>},
     Year        : {<<"2", "0", "2", "4">>},
     Season_Code : {<<"2", "4", "F">>, <<"2", "5", "S">>},
     Gross_Sales : FxAmounts.grossSalesMonth,
     Net_Sales   : FxAmounts.netSalesMonth,
     Stock_Price : FxAmounts.stockPriceTag,
     Stock_Cost  : FxAmounts.stockCost,
     Country     : FxCountries]

\* raw HK graph rows of several periods and FW seasons
FxGraphSeasonRows ==
    [Period      : {<<"2", "4", "0", "6">>, <<"2", "4", "1", "2">>,
                    <<"2", "5", "0", "6">>, <<"2", "5", "1", "2">>,
                    <<"2", "6", "0", "1">>, <<"2", "4">>, <<"4">>},
     Year        : {<<"2", "0", "2", "4">>},
     Season_Code : {<<"2", "2", "F">>, <<"2", "3", "F">>, <<"2", "4", "F">>,
                    <<"2", "5", "F">>},
     Gross_Sales : {Rat(1000, 1)},
     Net_Sales   : {Rat(900, 1)},
     Stock_Price : {Rat(201, 1)},
     Stock_Cost  : {Rat(103, 1)},
     Country     : {HK}]

\* either an inventory row for applyFxNormalization or a graph row for
\* normalizeGraphDataRow
InitFx ==
    /\ AppIdle
    /\ EffectIdle
    /\ IvIdle
    /\ DecIdle
    /\ SeasonIdle
    /\ CsvIdle
    /\ TokIdle
    /\ LoadIdle
    /\ DashIdle
    /\ \/ fxRaw \in FxRawRows /\ fxGraphRaw = NoFxRaw
       \/ fxRaw = NoFxRaw /\ fxGraphRaw \in FxGraphRawRows \cup FxGraphSeasonRows
    /\ fxRow = NoFxRow
    /\ fxGraph = NoFxRow
    /\ fpc = "start"

\* applyFxNormalization(fxRaw, seasonInfo) with the SeasonInfo of some code
ApplyFxCall ==
    /\ fpc = "start"
    /\ fxRaw # NoFxRaw
    /\ \E code \in {<<"2", "4", "F">>, <<"2", "5", "S">>} :
          fxRow' = applyFxNormalization(fxRaw, parseSeason(code, 25))
    /\ fpc' = "normalized"
    /\ UNCHANGED <<fxRaw, fxGraphRaw, fxGraph>>
    /\ UNCHANGED FxOthers

\* normalizeGraphDataRow(fxGraphRaw)
NormalizeGraphCall ==
    /\ fpc = "start"
    /\ fxGraphRaw # NoFxRaw
    /\ fxGraph' = normalizeGraphDataRow(fxGraphRaw)
    /\ fpc' = "graphNormalized"
    /\ UNCHANGED <<fxRaw, fxRow, fxGraphRaw>>
    /\ UNCHANGED FxOthers

NextFx ==
    \/ ApplyFxCall
    \/ NormalizeGraphCall

SpecFx == InitFx /\ [][NextFx]_vars

----------------------------------------------------------------------------
(* SpecCsv: parseCSV, statement by statement, on texts built from drawn     *)
(* lines.                                                                   *)

\* the physical lines a drawn text is made of
CsvLines ==
    {<<"a", ",", "b", ",", "c">>,                       \* a,b,c
     <<"a", ",", Quote, Quote, ",", "c">>,              \* a,"",c
     <<Quote, "a", ",", "b">>,                          \* "a,b
     <<"b", Quote, ",", "c">>,                          \* b",c
     <<Quote, "x", ",", " ", "y", Quote, ",", "z">>,    \* "x, y",z
     <<"x">>,                                           \* x
     <<"x", ",", "y", ",", "z", ",", "w">>,             \* x,y,z,w
     <<"a", ",", "b", ",", "a">>,                       \* a,b,a
     <<" ">>}                                           \* a blank line

\* the line break a drawn text uses
CsvBreaks == {<<LF>>, <<CR, LF>>}

RECURSIVE SeqsUpTo(_, _)
SeqsUpTo(S, n) ==
    IF n = 0 THEN {<< >>}
    ELSE LET shorter == SeqsUpTo(S, n - 1)
         IN  shorter \cup {Append(q, x) : q \in shorter, x \in S}

CsvTexts ==
    {JoinWith(ls, br) : ls \in SeqsUpTo(CsvLines, MaxCsvLines), br \in CsvBreaks}

\* the variables the CSV specification leaves alone
CsvOthers == <<seasonVars, fxVars, tokVars, loadVars, dashVars, decVars, ivVars, effVars, appVars>>

InitCsv ==
    /\ AppIdle
    /\ EffectIdle
    /\ IvIdle
    /\ DecIdle
    /\ SeasonIdle
    /\ FxIdle
    /\ TokIdle
    /\ LoadIdle
    /\ DashIdle
    /\ csvText \in CsvTexts
    /\ lines = << >>
    /\ headerEndIndex = 1
    /\ headerLines = << >>
    /\ inQuotes = FALSE
    /\ currentLineIndex = 1
    /\ cleanedHeaders = << >>
    /\ rows = << >>
    /\ rowIndex = 0
    /\ cpc = "start"

\* lines 230-231: split, drop blank lines, return [] below two lines
CsvSplit ==
    /\ cpc = "start"
    /\ lines' = SplitLines(csvText)
    /\ cpc' = IF Len(lines') < 2 THEN "done" ELSE "scan"
    /\ UNCHANGED <<csvText, headerEndIndex, headerLines, inQuotes,
                   currentLineIndex, cleanedHeaders, rows, rowIndex>>
    /\ UNCHANGED CsvOthers

\* lines 235-247: the header starts as the first line, whose quotes are scanned
CsvScanFirstLine ==
    /\ cpc = "scan"
    /\ headerEndIndex' = 1
    /\ headerLines' = <<lines[1]>>
    /\ inQuotes' = ScanQuotes(lines[1], 1, FALSE)
    /\ currentLineIndex' = 1
    /\ cpc' = "extend"
    /\ UNCHANGED <<csvText, lines, cleanedHeaders, rows, rowIndex>>
    /\ UNCHANGED CsvOthers

\* a loop condition without the cap on the header's lines
HeaderOpenWithoutCap ==
    inQuotes /\ currentLineIndex < Len(lines)

\* the condition of the while loop of line 248
HeaderOpen ==
    inQuotes /\ currentLineIndex < Len(lines) /\ currentLineIndex < MaxHeaderLines

\* lines 248-257: one more line goes to the header
CsvAppendHeaderLine ==
    /\ cpc = "extend"
    /\ HeaderOpen
    /\ headerLines' = Append(headerLines, lines[currentLineIndex + 1])
    /\ inQuotes' = ScanQuotes(lines[currentLineIndex + 1], 1, inQuotes)
    /\ currentLineIndex' = currentLineIndex + 1
    /\ headerEndIndex' = currentLineIndex'
    /\ UNCHANGED <<csvText, lines, cleanedHeaders, rows, rowIndex, cpc>>
    /\ UNCHANGED CsvOthers

\* lines 260-280: the header is tokenized and cleaned; the data loop starts
CsvCleanHeaders ==
    /\ cpc = "extend"
    /\ ~HeaderOpen
    /\ cleanedHeaders' = CleanedHeadersOf(headerLines)
    /\ rows' = << >>
    /\ rowIndex' = headerEndIndex
    /\ cpc' = "data"
    /\ UNCHANGED <<csvText, lines, headerEndIndex, headerLines, inQuotes,
                   currentLineIndex>>
    /\ UNCHANGED CsvOthers

\* lines 280-294: one data line
CsvDataLine ==
    /\ cpc = "data"
    /\ rowIndex < Len(lines)
    /\ LET line   == Trim(lines[rowIndex + 1])
           values == parseCSVLine(line)
       IN  rows' = IF line # << >> /\ Accepts(cleanedHeaders, values)
                   THEN Append(rows, RowOf(cleanedHeaders, values))
                   ELSE rows
    /\ rowIndex' = rowIndex + 1
    /\ UNCHANGED <<csvText, lines, headerEndIndex, headerLines, inQuotes,
                   currentLineIndex, cleanedHeaders, cpc>>
    /\ UNCHANGED CsvOthers

\* line 296
CsvReturn ==
    /\ cpc = "data"
    /\ rowIndex >= Len(lines)
    /\ cpc' = "done"
    /\ UNCHANGED <<csvText, lines, headerEndIndex, headerLines, inQuotes,
                   currentLineIndex, cleanedHeaders, rows, rowIndex>>
    /\ UNCHANGED CsvOthers

NextCsv ==
    \/ CsvSplit
    \/ CsvScanFirstLine
    \/ CsvAppendHeaderLine
    \/ CsvCleanHeaders
    \/ CsvDataLine
    \/ CsvReturn

SpecCsv == InitCsv /\ [][NextCsv]_vars

----------------------------------------------------------------------------
(* SpecHeader: parseCSV on texts of up to MaxHeaderTextLines lines, each   *)
(* opening a quote, closing one, or holding none.                          *)

\* the physical lines a drawn text is made of
HeaderTextLines ==
    {<<Quote, "a", ",", "b">>,       \* "a,b
     <<"b", Quote, ",", "c">>,       \* b",c
     <<"x", ",", "y">>}              \* x,y

HeaderTexts ==
    {JoinWith(ls, <<LF>>) : ls \in SeqsUpTo(HeaderTextLines, MaxHeaderTextLines)}

InitHeader ==
    /\ AppIdle
    /\ EffectIdle
    /\ IvIdle
    /\ DecIdle
    /\ SeasonIdle
    /\ FxIdle
    /\ TokIdle
    /\ LoadIdle
    /\ DashIdle
    /\ csvText \in HeaderTexts
    /\ lines = << >>
    /\ headerEndIndex = 1
    /\ headerLines = << >>
    /\ inQuotes = FALSE
    /\ currentLineIndex = 1
    /\ cleanedHeaders = << >>
    /\ rows = << >>
    /\ rowIndex = 0
    /\ cpc = "start"

SpecHeader == InitHeader /\ [][NextCsv]_vars

----------------------------------------------------------------------------
(* SpecLine: parseCSVLine applied to every short line over the characters  *)
(* the tokenizer tells apart.                                              *)

LineChars == {Quote, Comma, "a", " "}

\* the variables the tokenizer specification leaves alone
TokOthers == <<seasonVars, fxVars, csvVars, loadVars, dashVars, decVars, ivVars, effVars, appVars>>

InitLine ==
    /\ AppIdle
    /\ EffectIdle
    /\ IvIdle
    /\ DecIdle
    /\ SeasonIdle
    /\ FxIdle
    /\ CsvIdle
    /\ LoadIdle
    /\ DashIdle
    /\ tokLine \in StringsUpTo(LineChars, MaxLineLen)
    /\ tokValues = << >>
    /\ tpc = "start"

\* parseCSVLine(tokLine)
TokenizeCall ==
    /\ tpc = "start"
    /\ tokValues' = parseCSVLine(tokLine)
    /\ tpc' = "tokenized"
    /\ UNCHANGED tokLine
    /\ UNCHANGED TokOthers

NextLine == TokenizeCall

SpecLine == InitLine /\ [][NextLine]_vars

----------------------------------------------------------------------------
(* Spec: loadAndNormalizeData, from the two fetches to the returned rows.   *)
(* A file is given by what fetching its path does (an OK response, a        *)
(* non-OK response, a rejection) and by the row mappings parseCSV returns   *)
(* for its text; parseCSV itself is SpecCsv.                                *)

Str24F == <<"2", "4", "F">>

\* the row mappings a drawn file is made of
LoadRowKinds ==
    {("SEASON" :> Str24F) @@ ("Country" :> HK)
        @@ ("Gross Sales ($)" :> <<"1", "0", "0", "0">>)
        @@ ("Net Sales ($)" :> <<"9", "0", "0">>),
     ("SEASON" :> <<" ", "2", "3", "F">>) @@ ("Country" :> <<"m", "c">>)
        @@ ("Gross Sales ($)" :> <<"1", ",", "0", "3", "0">>)
        @@ ("Stock Price ($)" :> <<"2", "0", "6">>),
     ("SEASON" :> <<"2", "5", "S">>) @@ ("Country" :> TW)
        @@ ("Stock Cost ($)" :> <<"4", "0", ".", "2">>),
     << >>}

LoadFiles ==
    {[status |-> "ok", rows |-> r] : r \in SeqsUpTo(LoadRowKinds, MaxFileRows)}
    \cup {[status |-> "notOk", rows |-> << >>],
          [status |-> "rejected", rows |-> << >>]}

LoadYears == {25, 26}

\* the variables the loader specification leaves alone
LoadOthers == <<seasonVars, fxVars, csvVars, tokVars, dashVars, decVars, ivVars, effVars, appVars>>

Init ==
    /\ AppIdle
    /\ EffectIdle
    /\ IvIdle
    /\ DecIdle
    /\ SeasonIdle
    /\ FxIdle
    /\ CsvIdle
    /\ TokIdle
    /\ DashIdle
    /\ ldYear \in LoadYears
    /\ pyFile \in LoadFiles
    /\ cyFile \in LoadFiles
    /\ pyFetch = "idle"
    /\ cyFetch = "idle"
    /\ fetches = [PY |-> 0, CY |-> 0]
    /\ ldPyRows = << >>
    /\ ldCyRows = << >>
    /\ allRows = << >>
    /\ ldIndex = 0
    /\ lpc = "start"

\* lines 318-321: both loadCSVFile calls are made, each awaiting its fetch
LoadStart ==
    /\ lpc = "start"
    /\ pyFetch' = "pending"
    /\ cyFetch' = "pending"
    /\ fetches' = [PY |-> fetches.PY + 1, CY |-> fetches.CY + 1]
    /\ lpc' = "fetching"
    /\ UNCHANGED <<ldYear, pyFile, cyFile, ldPyRows, ldCyRows, allRows, ldIndex>>
    /\ UNCHANGED LoadOthers

\* lines 302-308: how loadCSVFile ends for a file
FetchResult(file) == IF file.status = "ok" THEN "text" ELSE "thrown"

\* lines 303-307: the PY fetch settles
PyFetchSettles ==
    /\ pyFetch = "pending"
    /\ pyFetch' = FetchResult(pyFile)
    /\ UNCHANGED <<ldYear, pyFile, cyFile, cyFetch, fetches, ldPyRows, ldCyRows,
                   allRows, ldIndex, lpc>>
    /\ UNCHANGED LoadOthers

\* lines 303-307: the CY fetch settles
CyFetchSettles ==
    /\ cyFetch = "pending"
    /\ cyFetch' = FetchResult(cyFile)
    /\ UNCHANGED <<ldYear, pyFile, cyFile, pyFetch, fetches, ldPyRows, ldCyRows,
                   allRows, ldIndex, lpc>>
    /\ UNCHANGED LoadOthers

\* a load that fetches a failed file a second time
LoadRetriesOnce ==
    /\ lpc = "fetching"
    /\ pyFetch = "thrown" \/ cyFetch = "thrown"
    /\ fetches.PY < 2 /\ fetches.CY < 2
    /\ pyFetch' = IF pyFetch = "thrown" THEN "pending" ELSE pyFetch
    /\ cyFetch' = IF cyFetch = "thrown" THEN "pending" ELSE cyFetch
    /\ fetches' = [PY |-> IF pyFetch = "thrown" THEN fetches.PY + 1 ELSE fetches.PY,
                   CY |-> IF cyFetch = "thrown" THEN fetches.CY + 1 ELSE fetches.CY]
    /\ UNCHANGED <<ldYear, pyFile, cyFile, ldPyRows, ldCyRows, allRows, ldIndex, lpc>>
    /\ UNCHANGED LoadOthers

\* line 318: Promise.all rejects as soon as one loadCSVFile has thrown
LoadRejects ==
    /\ lpc = "fetching"
    /\ pyFetch = "thrown" \/ cyFetch = "thrown"
    /\ lpc' = "rejected"
    /\ UNCHANGED <<ldYear, pyFile, cyFile, pyFetch, cyFetch, fetches, ldPyRows,
                   ldCyRows, allRows, ldIndex>>
    /\ UNCHANGED LoadOthers

\* a load that parses as soon as the PY text is there
LoadParsesOnPyText ==
    /\ lpc = "fetching"
    /\ pyFetch = "text"
    /\ ldPyRows' = pyFile.rows
    /\ ldCyRows' = cyFile.rows
    /\ allRows' = << >>
    /\ ldIndex' = 0
    /\ lpc' = "decodePY"
    /\ UNCHANGED <<ldYear, pyFile, cyFile, pyFetch, cyFetch, fetches>>
    /\ UNCHANGED LoadOthers

\* lines 318-326: both texts are there; they are parsed
LoadParses ==
    /\ lpc = "fetching"
    /\ pyFetch = "text" /\ cyFetch = "text"
    /\ ldPyRows' = pyFile.rows
    /\ ldCyRows' = cyFile.rows
    /\ allRows' = << >>
    /\ ldIndex' = 0
    /\ lpc' = "decodePY"
    /\ UNCHANGED <<ldYear, pyFile, cyFile, pyFetch, cyFetch, fetches>>
    /\ UNCHANGED LoadOthers

\* lines 329-338: one PY row
LoadDecodesPyRow ==
    /\ lpc = "decodePY"
    /\ ldIndex < Len(ldPyRows)
    /\ allRows' = PushUnlessThrown(allRows, ldPyRows[ldIndex + 1],
                         NormalizedRow(ldPyRows[ldIndex + 1], "PY",
                                       LoaderReferenceYear("PY", ldYear)))
    /\ ldIndex' = ldIndex + 1
    /\ UNCHANGED <<ldYear, pyFile, cyFile, pyFetch, cyFetch, fetches, ldPyRows,
                   ldCyRows, lpc>>
    /\ UNCHANGED LoadOthers

\* line 341: the PY loop is over
LoadTurnsToCy ==
    /\ lpc = "decodePY"
    /\ ldIndex >= Len(ldPyRows)
    /\ ldIndex' = 0
    /\ lpc' = "decodeCY"
    /\ UNCHANGED <<ldYear, pyFile, cyFile, pyFetch, cyFetch, fetches, ldPyRows,
                   ldCyRows, allRows>>
    /\ UNCHANGED LoadOthers

\* lines 341-350: one CY row
LoadDecodesCyRow ==
    /\ lpc = "decodeCY"
    /\ ldIndex < Len(ldCyRows)
    /\ allRows' = PushUnlessThrown(allRows, ldCyRows[ldIndex + 1],
                         NormalizedRow(ldCyRows[ldIndex + 1], "CY",
                                       LoaderReferenceYear("CY", ldYear)))
    /\ ldIndex' = ldIndex + 1
    /\ UNCHANGED <<ldYear, pyFile, cyFile, pyFetch, cyFetch, fetches, ldPyRows,
                   ldCyRows, lpc>>
    /\ UNCHANGED LoadOthers

\* line 352
LoadReturns ==
    /\ lpc = "decodeCY"
    /\ ldIndex >= Len(ldCyRows)
    /\ lpc' = "returned"
    /\ UNCHANGED <<ldYear, pyFile, cyFile, pyFetch, cyFetch, fetches, ldPyRows,
                   ldCyRows, allRows, ldIndex>>
    /\ UNCHANGED LoadOthers

Next ==
    \/ LoadStart
    \/ PyFetchSettles
    \/ CyFetchSettles
    \/ LoadRejects
    \/ LoadParses
    \/ LoadDecodesPyRow
    \/ LoadTurnsToCy
    \/ LoadDecodesCyRow
    \/ LoadReturns

Spec == Init /\ [][Next]_vars

----------------------------------------------------------------------------
(* SpecDash: one run of the dashboard's loadData effect, from mount to the *)
(* end of its finally block.  Files are given as for Spec; a non-OK        *)
(* response still has a body, which loadData reads for the inventory files.*)

\* the row mappings a drawn graph file is made of
GraphRowKinds ==
    {("Period" :> <<"2", "4", "1", "2">>) @@ ("Year" :> <<"2", "0", "2", "4">>)
        @@ ("Season_Code" :> <<"2", "3", "F">>) @@ ("Country" :> HK)
        @@ ("Gross_Sales" :> <<"1", "0", "0", "0">>)
        @@ ("Net_Sales" :> <<"9", "0", "0">>),
     ("Period" :> <<"2", "5", "1", "2">>) @@ ("Year" :> <<"2", "0", "2", "5">>)
        @@ ("Season_Code" :> Str24F) @@ ("Country" :> MC)
        @@ ("Gross_Sales" :> <<"2", "0", "6">>),
     ("Period" :> <<"2", "5", "1", "2">>) @@ ("Year" :> <<"2", "0", "2", "5">>)
        @@ ("Season_Code" :> <<"2", "5", "F">>) @@ ("Country" :> HK)
        @@ ("Gross_Sales" :> <<"3", "0", "0">>)
        @@ ("Stock_Price" :> <<"5", "0", "0">>),
     ("Period" :> <<"2", "5", "1", "1">>) @@ ("Year" :> <<"2", "0", "2", "5">>)
        @@ ("Season_Code" :> <<"2", "4", "S">>) @@ ("Country" :> <<"M", "O">>)
        @@ ("Gross_Sales" :> <<"1", "2", "0">>),
     ("Period" :> <<"2", "5", "1", "1">>) @@ ("Year" :> <<"2", "0", "2", "5">>)
        @@ ("Season_Code" :> <<"2", "3", "F">>) @@ ("Country" :> <<"m", "o">>)
        @@ ("Stock_Price" :> <<"8", "0", "0">>)}

GraphFiles ==
    {[status |-> "ok", rows |-> r] : r \in SeqsUpTo(GraphRowKinds, 1)}
    \cup {[status |-> "notOk", rows |-> << >>],
          [status |-> "rejected", rows |-> << >>]}

\* the row mappings a drawn target file is made of
TargetRowKinds ==
    {("PERIOD" :> <<"2", "0", "2", "5", "-", "1", "2">>)
        @@ ("SEASON_NAME" :> <<"2", "0", "2", "3", "F", "W">>)
        @@ ("SEASON" :> <<"2", "3", "F", "W">>)
        @@ ("CATEGORY" :> <<"O", "U", "T", "E", "R">>)
        @@ ("AMOUNT" :> <<"5", "0", "0">>)}

TargetFiles ==
    {[status |-> "ok", rows |-> r] : r \in SeqsUpTo(TargetRowKinds, 1)}
    \cup {[status |-> "notOk", rows |-> << >>],
          [status |-> "rejected", rows |-> << >>]}

\* what an inventory path may serve to the dashboard
DashFiles ==
    {[status |-> "ok", rows |-> r] : r \in SeqsUpTo(LoadRowKinds, MaxFileRows)}
    \cup {[status |-> "notOk", rows |-> << >>],
          [status |-> "rejected", rows |-> << >>]}

\* the elements of a row list handed over as a prop: the row mappings that
\* carry sales, or null
DashRowKinds ==
    {row \in LoadRowKinds : "Gross Sales ($)" \in DOMAIN row} \cup {NullRow}

\* the props of a dashboard rendered with parsed row lists: both, one alone,
\* or none
DashPropsWithRows(pg, pr, cg, cr, y) ==
    [pyGiven |-> pg, pyRowsRaw |-> IF pg THEN pr ELSE << >>,
     cyGiven |-> cg, cyRowsRaw |-> IF cg THEN cr ELSE << >>,
     pathsGiven |-> FALSE, pyFile |-> NoFile, cyFile |-> NoFile,
     currentFwYear |-> y]

\* the props of a dashboard rendered with the two file paths
DashPropsWithPaths(pf, cf, y) ==
    [pyGiven |-> FALSE, pyRowsRaw |-> << >>,
     cyGiven |-> FALSE, cyRowsRaw |-> << >>,
     pathsGiven |-> TRUE, pyFile |-> pf, cyFile |-> cf,
     currentFwYear |-> y]

\* the variables the dashboard specification leaves alone
DashOthers == <<seasonVars, fxVars, csvVars, tokVars, loadVars, decVars, ivVars, effVars, appVars>>

InitDash ==
    /\ AppIdle
    /\ EffectIdle
    /\ IvIdle
    /\ DecIdle
    /\ SeasonIdle
    /\ FxIdle
    /\ CsvIdle
    /\ TokIdle
    /\ LoadIdle
    /\ \/ \E pg \in BOOLEAN, cg \in BOOLEAN, y \in LoadYears :
             \E pr \in SeqsUpTo(DashRowKinds, MaxFileRows),
                cr \in SeqsUpTo(DashRowKinds, MaxFileRows) :
                props = DashPropsWithRows(pg, pr, cg, cr, y)
       \/ \E pf \in DashFiles, cf \in DashFiles, y \in LoadYears :
             props = DashPropsWithPaths(pf, cf, y)
    /\ DashMounted
    /\ dpc = "start"

\* lines 91-120: loadData starts with both row lists given
DashBeginsWithRows ==
    /\ dpc = "start"
    /\ props.pyGiven /\ props.cyGiven
    /\ loading' = TRUE
    /\ error' = "null"
    /\ dAllRows' = << >>
    /\ dPyRows' = props.pyRowsRaw
    /\ dCyRows' = props.cyRowsRaw
    /\ dIndex' = 0
    /\ dpc' = "decodePY"
    /\ UNCHANGED <<props, data, graphData, targetData, dPyFetch, dCyFetch,
                   graphFile, targetFile>>
    /\ UNCHANGED DashOthers

\* lines 91-126: loadData starts with both file paths given
DashBeginsWithPaths ==
    /\ dpc = "start"
    /\ ~(props.pyGiven /\ props.cyGiven)
    /\ props.pathsGiven
    /\ loading' = TRUE
    /\ error' = "null"
    /\ dAllRows' = << >>
    /\ dPyFetch' = "pending"
    /\ dCyFetch' = "pending"
    /\ dpc' = "fetching"
    /\ UNCHANGED <<props, data, graphData, targetData, dPyRows, dCyRows, dIndex,
                   graphFile, targetFile>>
    /\ UNCHANGED DashOthers

\* lines 91-95, 152-157 and 208-210: neither; data is emptied, loading ends
DashBeginsWithNothing ==
    /\ dpc = "start"
    /\ ~(props.pyGiven /\ props.cyGiven)
    /\ ~props.pathsGiven
    /\ error' = "null"
    /\ dAllRows' = << >>
    /\ data' = << >>
    /\ loading' = FALSE
    /\ dpc' = "done"
    /\ UNCHANGED <<props, graphData, targetData, dPyFetch, dCyFetch, dPyRows,
                   dCyRows, dIndex, graphFile, targetFile>>
    /\ UNCHANGED DashOthers

\* lines 124-125: fetch(path).then(r => r.text()) reads the body of any
\* response and throws only when the fetch rejects
DashFetchResult(file) == IF file.status = "rejected" THEN "thrown" ELSE "text"

\* line 124: the PY fetch settles
DashPyFetchSettles ==
    /\ dPyFetch = "pending"
    /\ dPyFetch' = DashFetchResult(props.pyFile)
    /\ UNCHANGED <<props, data, graphData, targetData, loading, error, dCyFetch,
                   dPyRows, dCyRows, dAllRows, dIndex, graphFile, targetFile, dpc>>
    /\ UNCHANGED DashOthers

\* line 125: the CY fetch settles
DashCyFetchSettles ==
    /\ dCyFetch = "pending"
    /\ dCyFetch' = DashFetchResult(props.cyFile)
    /\ UNCHANGED <<props, data, graphData, targetData, loading, error, dPyFetch,
                   dPyRows, dCyRows, dAllRows, dIndex, graphFile, targetFile, dpc>>
    /\ UNCHANGED DashOthers

\* lines 123 and 205-210: Promise.all rejects; the catch sets error, the
\* finally ends loading
DashFetchRejects ==
    /\ dpc = "fetching"
    /\ dPyFetch = "thrown" \/ dCyFetch = "thrown"
    /\ error' = "Failed to fetch"
    /\ loading' = FALSE
    /\ dpc' = "done"
    /\ UNCHANGED <<props, data, graphData, targetData, dPyFetch, dCyFetch,
                   dPyRows, dCyRows, dAllRows, dIndex, graphFile, targetFile>>
    /\ UNCHANGED DashOthers

\* lines 123-129: both bodies are there; they are parsed
DashParses ==
    /\ dpc = "fetching"
    /\ dPyFetch = "text" /\ dCyFetch = "text"
    /\ dPyRows' = props.pyFile.rows
    /\ dCyRows' = props.cyFile.rows
    /\ dIndex' = 0
    /\ dpc' = "decodePY"
    /\ UNCHANGED <<props, data, graphData, targetData, loading, error, dPyFetch,
                   dCyFetch, dAllRows, graphFile, targetFile>>
    /\ UNCHANGED DashOthers

\* lines 100-109 and 131-140: one PY row
DashDecodesPyRow ==
    /\ dpc = "decodePY"
    /\ dIndex < Len(dPyRows)
    /\ dAllRows' = PushUnlessThrown(dAllRows, dPyRows[dIndex + 1],
                          NormalizedRow(dPyRows[dIndex + 1], "PY",
                                        DashReferenceYear("PY")))
    /\ dIndex' = dIndex + 1
    /\ UNCHANGED <<props, data, graphData, targetData, loading, error, dPyFetch,
                   dCyFetch, dPyRows, dCyRows, graphFile, targetFile, dpc>>
    /\ UNCHANGED DashOthers

\* lines 111 and 142: the PY loop is over
DashTurnsToCy ==
    /\ dpc = "decodePY"
    /\ dIndex >= Len(dPyRows)
    /\ dIndex' = 0
    /\ dpc' = "decodeCY"
    /\ UNCHANGED <<props, data, graphData, targetData, loading, error, dPyFetch,
                   dCyFetch, dPyRows, dCyRows, dAllRows, graphFile, targetFile>>
    /\ UNCHANGED DashOthers

\* lines 111-120 and 142-151: one CY row
DashDecodesCyRow ==
    /\ dpc = "decodeCY"
    /\ dIndex < Len(dCyRows)
    /\ dAllRows' = PushUnlessThrown(dAllRows, dCyRows[dIndex + 1],
                          NormalizedRow(dCyRows[dIndex + 1], "CY",
                                        DashReferenceYear("CY")))
    /\ dIndex' = dIndex + 1
    /\ UNCHANGED <<props, data, graphData, targetData, loading, error, dPyFetch,
                   dCyFetch, dPyRows, dCyRows, graphFile, targetFile, dpc>>
    /\ UNCHANGED DashOthers

\* lines 159-173: setData(allRows); the graph file is fetched
DashSetsData ==
    /\ dpc = "decodeCY"
    /\ dIndex >= Len(dCyRows)
    /\ data' = dAllRows
    /\ dpc' = "graph"
    /\ UNCHANGED <<props, graphData, targetData, loading, error, dPyFetch,
                   dCyFetch, dPyRows, dCyRows, dAllRows, dIndex, graphFile,
                   targetFile>>
    /\ UNCHANGED DashOthers

\* lines 171-191: the graph fetch settles; the target file is fetched
DashGraphSettles ==
    /\ dpc = "graph"
    /\ \E file \in GraphFiles :
          /\ graphFile' = file
          /\ graphData' = IF file.status = "ok" THEN parseGraphCSV(file.rows)
                          ELSE << >>
    /\ dpc' = "target"
    /\ UNCHANGED <<props, data, targetData, loading, error, dPyFetch, dCyFetch,
                   dPyRows, dCyRows, dAllRows, dIndex, targetFile>>
    /\ UNCHANGED DashOthers

\* lines 189-210: the target fetch settles; the finally ends loading
DashTargetSettles ==
    /\ dpc = "target"
    /\ \E file \in TargetFiles :
          /\ targetFile' = file
          /\ targetData' = IF file.status = "ok" THEN parseTargetCSV(file.rows, 25)
                           ELSE << >>
    /\ loading' = FALSE
    /\ dpc' = "done"
    /\ UNCHANGED <<props, data, graphData, error, dPyFetch, dCyFetch, dPyRows,
                   dCyRows, dAllRows, dIndex, graphFile>>
    /\ UNCHANGED DashOthers

NextDash ==
    \/ DashBeginsWithRows
    \/ DashBeginsWithPaths
    \/ DashBeginsWithNothing
    \/ DashPyFetchSettles
    \/ DashCyFetchSettles
    \/ DashFetchRejects
    \/ DashParses
    \/ DashDecodesPyRow
    \/ DashTurnsToCy
    \/ DashDecodesCyRow
    \/ DashSetsData
    \/ DashGraphSettles
    \/ DashTargetSettles

SpecDash == InitDash /\ [][NextDash]_vars

----------------------------------------------------------------------------
(* SpecLoads: an inventory load from two file paths, by                    *)
(* loadAndNormalizeData or by the dashboard's loadData.                    *)

InitLoads == Init \/ InitDash

NextLoads ==
    \/ Next
    \/ NextDash

SpecLoads == InitLoads /\ [][NextLoads]_vars

----------------------------------------------------------------------------
(* SpecAnyOrder: the PY loop and the CY loop of loadAndNormalizeData, each  *)
(* taking its rows in file order, scheduled against each other in any way. *)

\* the row mappings of the two row lists
AnyOrderRowKinds == {row \in LoadRowKinds : row # << >>}

\* the variables the specification leaves alone
AnyOrderOthers == <<seasonVars, fxVars, csvVars, tokVars, loadVars, dashVars, decVars, effVars, appVars>>

InitAnyOrder ==
    /\ AppIdle
    /\ EffectIdle
    /\ SeasonIdle
    /\ FxIdle
    /\ CsvIdle
    /\ TokIdle
    /\ LoadIdle
    /\ DashIdle
    /\ DecIdle
    /\ ivYear \in LoadYears
    /\ ivPyRows \in SeqsUpTo(AnyOrderRowKinds, MaxFileRows)
    /\ ivCyRows \in SeqsUpTo(AnyOrderRowKinds, MaxFileRows)
    /\ ivPyIndex = 0
    /\ ivCyIndex = 0
    /\ ivRows = << >>
    /\ ivpc = "decoding"

\* lines 329-338: the body of the PY loop, for the next PY row
AnyOrderDecodesPyRow ==
    /\ ivpc = "decoding"
    /\ ivPyIndex < Len(ivPyRows)
    /\ ivRows' = PushUnlessThrown(ivRows, ivPyRows[ivPyIndex + 1],
                     NormalizedRow(ivPyRows[ivPyIndex + 1], "PY",
                                   LoaderReferenceYear("PY", ivYear)))
    /\ ivPyIndex' = ivPyIndex + 1
    /\ UNCHANGED <<ivYear, ivPyRows, ivCyRows, ivCyIndex, ivpc>>
    /\ UNCHANGED AnyOrderOthers

\* lines 341-350: the body of the CY loop, for the next CY row
AnyOrderDecodesCyRow ==
    /\ ivpc = "decoding"
    /\ ivCyIndex < Len(ivCyRows)
    /\ ivRows' = PushUnlessThrown(ivRows, ivCyRows[ivCyIndex + 1],
                     NormalizedRow(ivCyRows[ivCyIndex + 1], "CY",
                                   LoaderReferenceYear("CY", ivYear)))
    /\ ivCyIndex' = ivCyIndex + 1
    /\ UNCHANGED <<ivYear, ivPyRows, ivCyRows, ivPyIndex, ivpc>>
    /\ UNCHANGED AnyOrderOthers

\* line 352, once both loops are over
AnyOrderReturns ==
    /\ ivpc = "decoding"
    /\ ivPyIndex >= Len(ivPyRows)
    /\ ivCyIndex >= Len(ivCyRows)
    /\ ivpc' = "returned"
    /\ UNCHANGED <<ivYear, ivPyRows, ivCyRows, ivPyIndex, ivCyIndex, ivRows>>
    /\ UNCHANGED AnyOrderOthers

NextAnyOrder ==
    \/ AnyOrderDecodesPyRow
    \/ AnyOrderDecodesCyRow
    \/ AnyOrderReturns

SpecAnyOrder == InitAnyOrder /\ [][NextAnyOrder]_vars

----------------------------------------------------------------------------
(* SpecDecode: parseNumber on every short cell over a small alphabet, and   *)
(* parseCSVRow on row mappings that hold any subset of a few columns.      *)

\* the characters of a drawn cell
CellChars == {"1", "2", ",", ".", " ", "-", "x"}

\* the cells handed to parseNumber: null or undefined, or a string
NumberCells == {Absent} \cup StringsUpTo(CellChars, MaxCellLen)

\* the columns a drawn row mapping may hold
DecodeColumns ==
    {"Country", "ITEM DESC2", "SEASON", "Gross Sales ($)", "AC Sales (Cost)",
     "AC Sales\n(Cost)"}

\* the cells of a drawn row mapping
DecodeCells ==
    {<< >>, <<" ", "h", "k", " ">>, <<"1", ",", "2", "3", "4", ".", "5">>, <<"x">>}

\* the row mappings handed to parseCSVRow
DecodeRows ==
    UNION {[cols -> DecodeCells] : cols \in SUBSET DecodeColumns}

\* the cells of a drawn target row mapping
TargetCells ==
    {<< >>, <<"5", "0", "0">>, <<"0", ".", "2", "5">>, <<" ", "1", ",", "2", "0", "0">>}

\* the row mappings of a target file handed to parseTargetCSVRow: the shape
\* with an AMOUNT column and the shape with TAG_SALES, NET_SALES and
\* DISCOUNT_RATE columns
TargetDecodeRows ==
    {("PERIOD" :> <<"2", "0", "2", "5", "-", "1", "2">>)
        @@ ("SEASON" :> <<"2", "3", "F", "W">>)
        @@ ("CATEGORY" :> <<"O", "U", "T", "E", "R">>)
        @@ ("AMOUNT" :> a) : a \in TargetCells}
    \cup
    {("PERIOD" :> <<"2", "0", "2", "5", "-", "1", "2">>)
        @@ ("SEASON" :> <<"2", "3", "F">>)
        @@ ("CATEGORY" :> <<"O", "U", "T", "E", "R">>)
        @@ ("TAG_SALES" :> t) @@ ("NET_SALES" :> n) @@ ("DISCOUNT_RATE" :> d) :
        t \in TargetCells, n \in TargetCells, d \in TargetCells}

\* the variables the decoder specification leaves alone
DecodeOthers == <<seasonVars, fxVars, csvVars, tokVars, loadVars, dashVars, ivVars, effVars, appVars>>

\* either a cell for parseNumber or a row mapping for parseCSVRow
InitDecode ==
    /\ AppIdle
    /\ EffectIdle
    /\ IvIdle
    /\ SeasonIdle
    /\ FxIdle
    /\ CsvIdle
    /\ TokIdle
    /\ LoadIdle
    /\ DashIdle
    /\ \/ decValue \in NumberCells /\ decRow = << >> /\ dcpc = "number"
       \/ decValue = << >> /\ decRow \in DecodeRows /\ dcpc = "row"
       \/ decValue = << >> /\ decRow \in TargetDecodeRows /\ dcpc = "targetRow"
    /\ decNumber = Rat(0, 1)
    /\ decRaw = NoRaw
    /\ decTarget = NoRaw

\* parseNumber(decValue)
ParseNumberCall ==
    /\ dcpc = "number"
    /\ decNumber' = parseNumber(decValue)
    /\ dcpc' = "parsed"
    /\ UNCHANGED <<decValue, decRow, decRaw, decTarget>>
    /\ UNCHANGED DecodeOthers

\* parseCSVRow(decRow, sourceYearType)
ParseCSVRowCall ==
    /\ dcpc = "row"
    /\ \E sourceYearType_ \in {"PY", "CY"} :
          decRaw' = parseCSVRow(decRow, sourceYearType_)
    /\ dcpc' = "decoded"
    /\ UNCHANGED <<decValue, decNumber, decRow, decTarget>>
    /\ UNCHANGED DecodeOthers

\* lines 507-509: the body of the try block of parseTargetCSV, as the
\* dashboard calls it (currentFwYear 25)
ParseTargetRowCall ==
    /\ dcpc = "targetRow"
    /\ decTarget' = normalizeTargetDataRow(parseTargetCSVRow(decRow), 25)
    /\ dcpc' = "targetDecoded"
    /\ UNCHANGED <<decValue, decNumber, decRow, decRaw>>
    /\ UNCHANGED DecodeOthers

NextDecode ==
    \/ ParseNumberCall
    \/ ParseCSVRowCall
    \/ ParseTargetRowCall

SpecDecode == InitDecode /\ [][NextDecode]_vars

----------------------------------------------------------------------------
(* SpecEffect: the dashboard's load effect, run on mount and again on each *)
(* render that changes one of its dependencies (line 214), while earlier   *)
(* invocations of loadData may still await their fetches.  No invocation   *)
(* is cancelled.  Between two awaits an invocation runs uninterrupted, so  *)
(* an invocation takes one step per awaited fetch.                         *)

MaxInvocations == 2

\* the 24F row of country HK
Row24FHK == CHOOSE row \in LoadRowKinds :
               "SEASON" \in DOMAIN row /\ row["SEASON"] = Str24F

\* the files a path serves
EffectFiles ==
    {[status |-> "ok", rows |-> <<Row24FHK>>],
     [status |-> "rejected", rows |-> << >>]}

\* the props of a render: both row lists, one alone, none, or the two paths
EffectProps ==
    {DashPropsWithRows(TRUE, <<Row24FHK>>, TRUE, <<Row24FHK>>, y) :
        y \in LoadYears}
    \cup {DashPropsWithRows(TRUE, <<NullRow>>, TRUE, <<Row24FHK>>, 25),
          DashPropsWithRows(TRUE, <<Row24FHK>>, FALSE, << >>, 25),
          DashPropsWithRows(FALSE, << >>, FALSE, << >>, 25)}
    \cup {DashPropsWithPaths(pf, [status |-> "ok", rows |-> <<Row24FHK>>], 25) :
             pf \in EffectFiles}

\* what fetching the graph file and the target file may give
EffectGraphFiles ==
    {file \in GraphFiles :
        \/ file.status = "notOk"
        \/ file.rows = <<CHOOSE row \in GraphRowKinds :
                              row["Season_Code"] = Str24F>>}
EffectTargetFiles ==
    {file \in TargetFiles : file.status = "rejected" \/ file.rows # << >>}

\* lines 102-105 and 113-116: the decoded row of each row mapping, per source
\* tag and reference year, computed once
NormalizedRowOf ==
    [sourceYearType_ \in {"PY", "CY"} |->
        [referenceYear \in 24..26 |->
            [row \in LoadRowKinds |->
                NormalizedRow(row, sourceYearType_, referenceYear)]]]

\* lines 100-109 and 111-120 (131-140 and 142-151): one loop over a row list
RECURSIVE PushRowsFrom(_, _, _, _, _)
PushRowsFrom(out, rows_, sourceYearType_, referenceYear, k) ==
    IF k > Len(rows_) THEN out
    ELSE PushRowsFrom(PushUnlessThrown(out, rows_[k],
                          NormalizedRowOf[sourceYearType_][referenceYear][rows_[k]]),
                      rows_, sourceYearType_, referenceYear, k + 1)

\* an inventory load that classifies against the currentFwYear prop
loadDataRowsByCurrentFwYear(pyRows_, cyRows_, currentFwYear_) ==
    PushRowsFrom(PushRowsFrom(<< >>, pyRows_, "PY", currentFwYear_ - 1, 1),
                 cyRows_, "CY", currentFwYear_, 1)

\* lines 97-120 and 128-151: allRows after both loops
loadDataRows(pyRows_, cyRows_, currentFwYear_) ==
    PushRowsFrom(PushRowsFrom(<< >>, pyRows_, "PY", DashReferenceYear("PY"), 1),
                 cyRows_, "CY", DashReferenceYear("CY"), 1)

\* an invocation of loadData: the props its closure holds, the await it is
\* at, and its local constants
Invocation(props_, at_, allRows_) ==
    [props |-> props_, at |-> at_, allRows |-> allRows_,
     parsedGraphData |-> << >>, parsedTargetData |-> << >>]

\* the variables the effect specification leaves alone
EffectOthers == <<seasonVars, fxVars, csvVars, tokVars, loadVars, decVars, ivVars, appVars>>

\* the dashboard variables that belong to the single load of SpecDash
EffectUnused == <<dPyFetch, dCyFetch, dPyRows, dCyRows, dAllRows, dIndex,
                  graphFile, targetFile, dpc>>

InitEffect ==
    /\ AppIdle
    /\ IvIdle
    /\ DecIdle
    /\ SeasonIdle
    /\ FxIdle
    /\ CsvIdle
    /\ TokIdle
    /\ LoadIdle
    /\ props \in EffectProps
    /\ DashMounted
    /\ dpc = "idle"
    /\ invocations = << >>

\* lines 89 and 213-214: the effect runs with the props of the mount, and
\* again with the props of a render that changed them
EffectRunsWith(p) ==
    /\ Len(invocations) < MaxInvocations
    /\ IF invocations = << >> THEN p = props ELSE p # props

\* lines 91-120 and 159-173: both row lists are given; the rows are decoded
\* and set before the first await, that of the graph file
LoadDataWithRows ==
    \E p \in EffectProps :
       /\ EffectRunsWith(p)
       /\ p.pyGiven /\ p.cyGiven
       /\ props' = p
       /\ loading' = TRUE
       /\ error' = "null"
       /\ data' = loadDataRows(p.pyRowsRaw, p.cyRowsRaw, p.currentFwYear)
       /\ invocations' = Append(invocations, Invocation(p, "graph", data'))
       /\ UNCHANGED <<graphData, targetData>>
       /\ UNCHANGED EffectUnused
       /\ UNCHANGED EffectOthers

\* lines 91-126: both paths are given; the invocation awaits the two files
LoadDataWithPaths ==
    \E p \in EffectProps :
       /\ EffectRunsWith(p)
       /\ ~(p.pyGiven /\ p.cyGiven)
       /\ p.pathsGiven
       /\ props' = p
       /\ loading' = TRUE
       /\ error' = "null"
       /\ invocations' = Append(invocations, Invocation(p, "fetching", << >>))
       /\ UNCHANGED <<data, graphData, targetData>>
       /\ UNCHANGED EffectUnused
       /\ UNCHANGED EffectOthers

\* lines 91-95, 152-157 and 208-210: neither; data is emptied, loading ends
LoadDataWithNothing ==
    \E p \in EffectProps :
       /\ EffectRunsWith(p)
       /\ ~(p.pyGiven /\ p.cyGiven)
       /\ ~p.pathsGiven
       /\ props' = p
       /\ error' = "null"
       /\ data' = << >>
       /\ loading' = FALSE
       /\ invocations' = Append(invocations, Invocation(p, "done", << >>))
       /\ UNCHANGED <<graphData, targetData>>
       /\ UNCHANGED EffectUnused
       /\ UNCHANGED EffectOthers

\* a rejection handled by a catch with no finally block
LoadDataFetchRejectsKeepsLoading ==
    \E i \in 1..Len(invocations) :
       /\ invocations[i].at = "fetching"
       /\ \/ DashFetchResult(invocations[i].props.pyFile) = "thrown"
          \/ DashFetchResult(invocations[i].props.cyFile) = "thrown"
       /\ error' = "Failed to fetch"
       /\ invocations' = [invocations EXCEPT ![i].at = "done"]
       /\ UNCHANGED <<props, data, graphData, targetData, loading>>
       /\ UNCHANGED EffectUnused
       /\ UNCHANGED EffectOthers

\* lines 123-126 and 205-210: Promise.all rejects; the catch sets error, the
\* finally ends loading
LoadDataFetchRejects ==
    \E i \in 1..Len(invocations) :
       /\ invocations[i].at = "fetching"
       /\ \/ DashFetchResult(invocations[i].props.pyFile) = "thrown"
          \/ DashFetchResult(invocations[i].props.cyFile) = "thrown"
       /\ error' = "Failed to fetch"
       /\ loading' = FALSE
       /\ invocations' = [invocations EXCEPT ![i].at = "done"]
       /\ UNCHANGED <<props, data, graphData, targetData>>
       /\ UNCHANGED EffectUnused
       /\ UNCHANGED EffectOthers

\* lines 123-173: both bodies are there; they are parsed, the rows decoded
\* and set, and the graph file is fetched
LoadDataParses ==
    \E i \in 1..Len(invocations) :
       /\ invocations[i].at = "fetching"
       /\ DashFetchResult(invocations[i].props.pyFile) = "text"
       /\ DashFetchResult(invocations[i].props.cyFile) = "text"
       /\ data' = loadDataRows(invocations[i].props.pyFile.rows,
                               invocations[i].props.cyFile.rows,
                               invocations[i].props.currentFwYear)
       /\ invocations' = [invocations EXCEPT ![i].at = "graph",
                                             ![i].allRows = data']
       /\ UNCHANGED <<props, graphData, targetData, loading, error>>
       /\ UNCHANGED EffectUnused
       /\ UNCHANGED EffectOthers

\* lines 171-191: the graph fetch of an invocation settles; the target file
\* is fetched
LoadDataGraphSettles ==
    \E i \in 1..Len(invocations), file \in EffectGraphFiles :
       /\ invocations[i].at = "graph"
       /\ graphData' = IF file.status = "ok" THEN parseGraphCSV(file.rows)
                       ELSE << >>
       /\ invocations' = [invocations EXCEPT ![i].at = "target",
                                             ![i].parsedGraphData = graphData']
       /\ UNCHANGED <<props, data, targetData, loading, error>>
       /\ UNCHANGED EffectUnused
       /\ UNCHANGED EffectOthers

\* lines 189-210: the target fetch of an invocation settles; the finally
\* ends loading
LoadDataTargetSettles ==
    \E i \in 1..Len(invocations), file \in EffectTargetFiles :
       /\ invocations[i].at = "target"
       /\ targetData' = IF file.status = "ok" THEN parseTargetCSV(file.rows, 25)
                        ELSE << >>
       /\ invocations' = [invocations EXCEPT ![i].at = "done",
                                             ![i].parsedTargetData = targetData']
       /\ loading' = FALSE
       /\ UNCHANGED <<props, data, graphData, error>>
       /\ UNCHANGED EffectUnused
       /\ UNCHANGED EffectOthers

NextEffect ==
    \/ LoadDataWithRows
    \/ LoadDataWithPaths
    \/ LoadDataWithNothing
    \/ LoadDataFetchRejects
    \/ LoadDataParses
    \/ LoadDataGraphSettles
    \/ LoadDataTargetSettles

SpecEffect == InitEffect /\ [][NextEffect]_vars

\* SpecSettled: SpecEffect where the effect of the mount runs and every
\* awaited fetch settles, by resolving or by rejecting
EffectMounts == invocations = << >> /\ NextEffect

LoadDataContinues ==
    \/ LoadDataFetchRejects
    \/ LoadDataParses
    \/ LoadDataGraphSettles
    \/ LoadDataTargetSettles

SpecSettled ==
    SpecEffect /\ WF_vars(EffectMounts) /\ WF_vars(LoadDataContinues)

----------------------------------------------------------------------------
(* SpecApp: the App component, from its mount through the load of the two  *)
(* default files and the uploads of the user.  A file is given by whether  *)
(* it can be read and by the rows parseCSV returns for its text; parseCSV  *)
(* itself is SpecCsv.  The button that calls handleReset sits inside the   *)
(* block rendered without data under a condition that needs both row lists *)
(* (lines 663 and 772), so it is never on screen and handleReset never     *)
(* runs.                                                                   *)

MaxReads == 2

RowMC == CHOOSE row \in LoadRowKinds :
            "Country" \in DOMAIN row /\ row["Country"] = <<"m", "c">>

\* what a default path serves
AppDefaultFiles ==
    {[status |-> "ok", rows |-> r] : r \in {<< >>, <<Row24FHK>>}}
    \cup {[status |-> "notOk", rows |-> << >>],
          [status |-> "rejected", rows |-> << >>]}

\* the files the user may pick
UploadFiles ==
    {[name |-> "a.csv", readable |-> TRUE, rows |-> <<Row24FHK>>],
     [name |-> "b.csv", readable |-> TRUE, rows |-> <<RowMC, Row24FHK>>],
     [name |-> "empty.csv", readable |-> TRUE, rows |-> << >>],
     [name |-> "bad.csv", readable |-> FALSE, rows |-> << >>]}

\* line 582 and line 598, in English
ParseFailedMessage == "the CSV file cannot be parsed"
ReadFailedMessage == "the file cannot be read"

\* line 635: both row lists are truthy; an array is, an empty one too
hasData == pyRowsRaw.given /\ cyRowsRaw.given

\* lines 637-646 and 798: what is on screen
DashboardRendered == ~appLoading /\ hasData
UploadRendered == ~appLoading /\ ~hasData

\* a default load that takes whatever parseCSV returns
DefaultsAcceptedAlways(pyParsed, cyParsed) == TRUE

\* line 553
DefaultsAccepted(pyParsed, cyParsed) == Len(pyParsed) > 0 /\ Len(cyParsed) > 0

\* an upload that takes whatever parseCSV returns
UploadAcceptedAlways(parsed) == TRUE

\* lines 581-583
UploadAccepted(parsed) == ~(Len(parsed) = 0)

\* the variables the App specification leaves alone
AppOthers == <<seasonVars, fxVars, csvVars, tokVars, loadVars, dashVars, decVars, ivVars, effVars>>

InitApp ==
    /\ EffectIdle
    /\ IvIdle
    /\ DecIdle
    /\ SeasonIdle
    /\ FxIdle
    /\ CsvIdle
    /\ TokIdle
    /\ LoadIdle
    /\ DashIdle
    /\ pyRowsRaw = Undefined
    /\ cyRowsRaw = Undefined
    /\ pyFileName = ""
    /\ cyFileName = ""
    /\ appError = "null"
    /\ appLoading = TRUE
    /\ defaultLoad = "mounted"
    /\ reading = {}

\* lines 535-543: the effect of the mount starts loadDefaultFiles, which
\* awaits the two fetches
LoadDefaultFilesStarts ==
    /\ defaultLoad = "mounted"
    /\ appLoading' = TRUE
    /\ appError' = "null"
    /\ defaultLoad' = "fetching"
    /\ UNCHANGED <<pyRowsRaw, cyRowsRaw, pyFileName, cyFileName, reading>>
    /\ UNCHANGED AppOthers

\* lines 540-545 and 560-564: a fetch rejects (and gives null) or a response
\* is not OK; nothing is set and the finally ends loading
LoadDefaultFilesFindsNone ==
    /\ defaultLoad = "fetching"
    /\ \E pyResponse \in AppDefaultFiles, cyResponse \in AppDefaultFiles :
          ~(pyResponse.status = "ok" /\ cyResponse.status = "ok")
    /\ appLoading' = FALSE
    /\ defaultLoad' = "done"
    /\ UNCHANGED <<pyRowsRaw, cyRowsRaw, pyFileName, cyFileName, appError,
                   reading>>
    /\ UNCHANGED AppOthers

\* lines 540-564: both responses are OK; the texts are parsed, the rows are
\* set when both files have some, and the finally ends loading
LoadDefaultFilesParses ==
    /\ defaultLoad = "fetching"
    /\ \E pyResponse \in AppDefaultFiles, cyResponse \in AppDefaultFiles :
          /\ pyResponse.status = "ok" /\ cyResponse.status = "ok"
          /\ IF DefaultsAccepted(pyResponse.rows, cyResponse.rows)
             THEN /\ pyRowsRaw' = Defined(pyResponse.rows)
                  /\ cyRowsRaw' = Defined(cyResponse.rows)
                  /\ pyFileName' = "HQST05_2412_merged_inventory.csv"
                  /\ cyFileName' = "HQST05_2512_merged_inventory.csv"
             ELSE UNCHANGED <<pyRowsRaw, cyRowsRaw, pyFileName, cyFileName>>
    /\ appLoading' = FALSE
    /\ defaultLoad' = "done"
    /\ UNCHANGED <<appError, reading>>
    /\ UNCHANGED AppOthers

\* lines 572-573, 602-622: the user picks a file in one of the two inputs,
\* which are on screen with the upload section; a FileReader starts
HandleFileUpload ==
    /\ UploadRendered
    /\ Cardinality(reading) < MaxReads
    /\ \E file \in UploadFiles, type \in {"PY", "CY"} :
          /\ [file |-> file, type |-> type] \notin reading
          /\ reading' = reading \cup {[file |-> file, type |-> type]}
    /\ UNCHANGED <<pyRowsRaw, cyRowsRaw, pyFileName, cyFileName, appError,
                   appLoading, defaultLoad>>
    /\ UNCHANGED AppOthers

\* lines 575-592: onload; the text has rows, which are set with the name
ReaderLoadsRows ==
    \E r \in reading :
       /\ r.file.readable
       /\ UploadAccepted(r.file.rows)
       /\ IF r.type = "PY"
          THEN /\ pyRowsRaw' = Defined(r.file.rows)
               /\ pyFileName' = r.file.name
               /\ UNCHANGED <<cyRowsRaw, cyFileName>>
          ELSE /\ cyRowsRaw' = Defined(r.file.rows)
               /\ cyFileName' = r.file.name
               /\ UNCHANGED <<pyRowsRaw, pyFileName>>
       /\ appError' = "null"
       /\ reading' = reading \ {r}
       /\ UNCHANGED <<appLoading, defaultLoad>>
       /\ UNCHANGED AppOthers

\* lines 575-583 and 593-597: onload; the text has no row, the handler
\* throws and its catch sets the message
ReaderLoadsNothing ==
    \E r \in reading :
       /\ r.file.readable
       /\ ~UploadAccepted(r.file.rows)
       /\ appError' = ParseFailedMessage
       /\ reading' = reading \ {r}
       /\ UNCHANGED <<pyRowsRaw, cyRowsRaw, pyFileName, cyFileName, appLoading,
                      defaultLoad>>
       /\ UNCHANGED AppOthers

\* a failed read that also forgets the rows of its kind
ReaderFailsAndForgets ==
    \E r \in reading :
       /\ ~r.file.readable
       /\ appError' = ReadFailedMessage
       /\ reading' = reading \ {r}
       /\ IF r.type = "PY"
          THEN /\ pyRowsRaw' = Undefined
               /\ pyFileName' = ""
               /\ UNCHANGED <<cyRowsRaw, cyFileName>>
          ELSE /\ cyRowsRaw' = Undefined
               /\ cyFileName' = ""
               /\ UNCHANGED <<pyRowsRaw, pyFileName>>
       /\ UNCHANGED <<appLoading, defaultLoad>>
       /\ UNCHANGED AppOthers

\* lines 600-603: onerror
ReaderFails ==
    \E r \in reading :
       /\ ~r.file.readable
       /\ appError' = ReadFailedMessage
       /\ reading' = reading \ {r}
       /\ UNCHANGED <<pyRowsRaw, cyRowsRaw, pyFileName, cyFileName, appLoading,
                      defaultLoad>>
       /\ UNCHANGED AppOthers

NextApp ==
    \/ LoadDefaultFilesStarts
    \/ LoadDefaultFilesFindsNone
    \/ LoadDefaultFilesParses
    \/ HandleFileUpload
    \/ ReaderLoadsRows
    \/ ReaderLoadsNothing
    \/ ReaderFails

SpecApp == InitApp /\ [][NextApp]_vars

----------------------------------------------------------------------------
(* Claims on the season classifier, checked under SpecSeason *)

\* the code parseSeason was called with, as a string
RawCode == Coalesce(seasonCodeRaw)

\* C1: for a code made of digits (year k) followed by F and a reference
\* year y, parseSeason returns InSeason when y - k <= 0, Y1 when y - k = 1,
\* Y2 when y - k = 2 and Y3Plus when y - k >= 3.
C1_FWBucketByYearDiff ==
    (/\ spc = "parsed"
     /\ Len(RawCode) >= 2
     /\ RawCode[Len(RawCode)] = "F"
     /\ \A i \in 1..(Len(RawCode) - 1) : RawCode[i] \in DigitChars)
    => LET k == ParseIntDigits(SubSeq(RawCode, 1, Len(RawCode) - 1))
       IN  /\ (refYear - k <= 0) => seasonInfo.yearBucket = "InSeason"
           /\ (refYear - k = 1)  => seasonInfo.yearBucket = "Y1"
           /\ (refYear - k = 2)  => seasonInfo.yearBucket = "Y2"
           /\ (refYear - k >= 3) => seasonInfo.yearBucket = "Y3Plus"

\* 24F read against 25 is one year past
C1_Witness ==
    /\ spc = "parsed"
    /\ seasonCodeRaw = <<"2", "4", "F">>
    /\ refYear = 25
    /\ seasonInfo.seasonType = "FW"
    /\ seasonInfo.seasonYear = 24
    /\ seasonInfo.yearBucket = "Y1"

\* C2: every SeasonInfo parseSeason returns is InSeason unless its type is
\* FW and its year is non-null: Spring, Accessory and Other codes and codes
\* with a non-numeric year part are InSeason whatever the year difference.
C2_OnlyDatedFWLeavesInSeason ==
    spc = "parsed"
    => \/ seasonInfo.yearBucket = "InSeason"
       \/ (seasonInfo.seasonType = "FW" /\ seasonInfo.seasonYear # NullYear)

\* a Spring code six years behind its reference year stays InSeason
C2_Witness ==
    /\ spc = "parsed"
    /\ seasonCodeRaw = <<"2", "2", "S">>
    /\ refYear = 28
    /\ seasonInfo.seasonType = "S"
    /\ seasonInfo.seasonYear = 22
    /\ seasonInfo.yearBucket = "InSeason"

OffSeasonPairs == {<<"FW", "Y1">>, <<"FW", "Y2">>, <<"FW", "Y3Plus">>}

\* C3: isOffSeasonFW(row) is true exactly for FW with Y1, Y2 or Y3Plus and
\* false for each of the 13 other (seasonType, yearBucket) pairs.
C3_OffSeasonTruthTable ==
    /\ Cardinality((SeasonTypes \X YearBuckets) \ OffSeasonPairs) = 13
    /\ spc \in {"probed", "filtered"}
       => (offSeason <=> <<probeRow.seasonInfo.seasonType,
                           probeRow.seasonInfo.yearBucket>> \in OffSeasonPairs)

\* a Spring row in a past bucket is not off-season FW
C3_Witness ==
    /\ spc = "probed"
    /\ probeRow.seasonInfo.seasonType = "S"
    /\ probeRow.seasonInfo.yearBucket = "Y2"
    /\ offSeason = FALSE

\* the type the claim assigns to a last character
C6_TypeOfLast(c) ==
    CASE c = "F" -> "FW" [] c = "S" -> "S" [] c = "N" -> "ACC" [] OTHER -> "OTHER"

\* the year the claim assigns to the leading characters
C6_YearOfLead(lead) ==
    IF lead # << >> /\ \A i \in 1..Len(lead) : lead[i] \in DigitChars
    THEN ParseIntDigits(lead) ELSE NullYear

C6_Reads(code) ==
    IF code = << >>
    THEN /\ seasonInfo.seasonType = "OTHER"
         /\ seasonInfo.seasonYear = NullYear
         /\ seasonInfo.yearBucket = "InSeason"
    ELSE /\ seasonInfo.seasonType = C6_TypeOfLast(code[Len(code)])
         /\ seasonInfo.seasonYear = C6_YearOfLead(SubSeq(code, 1, Len(code) - 1))

\* C6 as stated: the type comes from the last character of the code and the
\* year from the characters before it; an empty or absent code is OTHER,
\* null, InSeason.
C6_Original == spc = "parsed" => C6_Reads(RawCode)

\* C6 (amended): the type comes from the last character of the code after its
\* surrounding whitespace is trimmed (F -> FW, S -> S, N -> ACC, else OTHER)
\* and the year from the characters before it in the trimmed code (their
\* integer value when they are one or more digits, otherwise null); an empty,
\* whitespace-only or absent code is OTHER, null, InSeason.
C6_TypeAndYearOfTrimmedCode ==
    spc = "parsed"
    => /\ C6_Reads(Trim(RawCode))
       /\ seasonInfo.seasonCode = Trim(RawCode)

\* an Accessory code with a trailing blank is still read as ACC, year 4
C6_Witness ==
    /\ spc = "parsed"
    /\ seasonCodeRaw = <<"4", "N", " ">>
    /\ seasonInfo.seasonType = "ACC"
    /\ seasonInfo.seasonYear = 4

----------------------------------------------------------------------------
(* Claims on the FX normaliser, checked under SpecFx *)

\* the rate the claim's table gives a country
C10_Rate(country) ==
    CASE country = <<"H", "K">> -> Rat(1, 1)
      [] country = <<"M", "C">> -> Rat(103, 100)
      [] country = <<"T", "W">> -> Rat(402, 100)
      [] OTHER                  -> Rat(1, 1)

\* the nine normalised fields, each with the raw field it is computed from
C10_Fields ==
    {<<"grossSalesFx", "grossSalesMonth">>, <<"netSalesFx", "netSalesMonth">>,
     <<"stockPriceFx", "stockPriceTag">>, <<"stockCostFx", "stockCost">>,
     <<"acSalesGrossFx", "acSalesGross">>, <<"netAcPPFx", "netAcPP">>,
     <<"acSalesCostFx", "acSalesCost">>,
     <<"acSalesNetAmountFx", "acSalesNetAmount">>, <<"cogsFx", "cogsMonth">>}

\* C10: fxRate is 1 for HK, 1.03 for MC, 4.02 for TW and 1 for any other
\* country; each of the nine normalised fields is the raw field unchanged for
\* HK and the raw field divided by fxRate otherwise (so unchanged for an
\* unrecognised country).
C10_FxRateAndNineFields ==
    fpc = "normalized"
    => /\ Cardinality(C10_Fields) = 9
       /\ fxRow.fxRate = C10_Rate(fxRaw.country)
       /\ \A f \in C10_Fields :
             /\ fxRow[f[1]].den > 0
             /\ RatMul(fxRow[f[1]], C10_Rate(fxRaw.country)) = fxRaw[f[2]]
             /\ fxRaw.country \notin {<<"M", "C">>, <<"T", "W">>}
                => fxRow[f[1]] = fxRaw[f[2]]

\* a TW stock tag price of 201 is normalised to 50, its stock cost 103 to 5150/201
C10_Witness ==
    /\ fpc = "normalized"
    /\ fxRaw.country = <<"T", "W">>
    /\ fxRaw.stockPriceTag = Rat(201, 1)
    /\ fxRow.stockPriceFx = Rat(50, 1)
    /\ fxRaw.stockCost = Rat(103, 1)
    /\ fxRow.stockCostFx = Rat(5150, 201)
    /\ fxRow.fxRate = Rat(201, 50)

\* whether d is 1 - n/g, stated without a division: d * g = g - n
C11_IsOneMinusRatio(d, n, g) ==
    /\ d.den > 0
    /\ RatMul(d, g) = RatSub(g, n)

\* whether d is the discount rate the claim gives for gross g and net n
C11_Rate(d, n, g) ==
    /\ g.den > 0 /\ n.den > 0
    /\ g.num > 0 => C11_IsOneMinusRatio(d, n, g)
    /\ g.num <= 0 => (d = NullNum /\ d # Rat(0, 1))

\* C11: the discount rate of a normalised inventory row and of a normalised
\* graph row is 1 - netSalesFx / grossSalesFx exactly when the normalised
\* gross sales is strictly positive and null when it is zero or negative,
\* whatever the net sales; it is never 0 because sales are absent.
C11_DiscountNullWithoutGrossSales ==
    /\ fpc = "normalized"
       => C11_Rate(fxRow.discountRateMonth, fxRow.netSalesFx, fxRow.grossSalesFx)
    /\ fpc = "graphNormalized"
       => C11_Rate(fxGraph.discountRate, fxGraph.netSalesFx, fxGraph.grossSalesFx)

\* an MC graph row with no gross sales and net sales of 900 has a null
\* discount rate
C11_Witness ==
    /\ fpc = "graphNormalized"
    /\ fxGraphRaw.Country = <<"M", "C">>
    /\ fxGraphRaw.Gross_Sales = Rat(0, 1)
    /\ fxGraphRaw.Net_Sales = Rat(900, 1)
    /\ fxGraph.netSalesFx = Rat(90000, 103)
    /\ fxGraph.discountRate = NullNum

----------------------------------------------------------------------------
(* Claims on the CSV tokenizer, checked under SpecCsv and SpecLine *)

\* C7: the header's open-quote scan agrees with the field tokenizer's quote
\* state at the end of every header line, doubled quotes included, so a first
\* line whose quoted fields are all closed is the whole header and the second
\* non-blank line is the first data row.
C7_HeaderScanAgreesWithTokenizer ==
    /\ (cpc \in {"extend", "data", "done"} /\ headerLines # << >>)
       => inQuotes = LineEndsInQuotes(JoinWith(headerLines, <<" ">>))
    /\ (cpc \in {"data", "done"} /\ Len(lines) >= 2 /\ ~LineEndsInQuotes(lines[1]))
       => (headerEndIndex = 1 /\ headerLines = <<lines[1]>>)

\* the rows the claim expects of the data lines up to line i (from 1)
RECURSIVE C8_RowsUpTo(_)
C8_RowsUpTo(i) ==
    IF i <= headerEndIndex THEN << >>
    ELSE LET values == parseCSVLine(Trim(lines[i]))
         IN  IF Len(values) >= Len(cleanedHeaders) - 1
             THEN Append(C8_RowsUpTo(i - 1), RowOf(cleanedHeaders, values))
             ELSE C8_RowsUpTo(i - 1)

\* C8: a data line after the header emits a row mapping if and only if its
\* tokenized field count is at least the number of header fields minus one; a
\* line with two or more fields missing is dropped and the rows of the other
\* lines are emitted all the same.
C8_RowIffAtMostOneFieldMissing ==
    /\ cpc = "data" => rows = C8_RowsUpTo(rowIndex)
    /\ (cpc = "done" /\ Len(lines) >= 2) => rows = C8_RowsUpTo(Len(lines))

\* header a,b,c: the two-field line "x, y",z is kept, with c empty, and the
\* one-field line x is dropped
C8_Witness ==
    /\ cpc = "done"
    /\ headerEndIndex = 1
    /\ cleanedHeaders = <<(<<"a">>), (<<"b">>), (<<"c">>)>>
    /\ Len(lines) = 3
    /\ Len(parseCSVLine(lines[2])) = 1
    /\ Len(parseCSVLine(lines[3])) = 2
    /\ Len(rows) = 1
    /\ rows[1][<<"a">>] = <<"x", ",", " ", "y">>
    /\ rows[1][<<"c">>] = << >>

\* what each character of a line is to the claim: a quote that opens or
\* closes a span, the first or second quote of a doubled quote inside a span,
\* a separating comma, or text
RECURSIVE C9_Kinds(_, _, _)
C9_Kinds(line, i, quoted) ==
    IF i > Len(line) THEN << >>
    ELSE IF line[i] = Quote /\ quoted /\ i < Len(line) /\ line[i + 1] = Quote
         THEN <<"literal", "dropped">> \o C9_Kinds(line, i + 2, quoted)
    ELSE IF line[i] = Quote
         THEN <<"toggle">> \o C9_Kinds(line, i + 1, ~quoted)
    ELSE IF line[i] = Comma /\ ~quoted
         THEN <<"separator">> \o C9_Kinds(line, i + 1, quoted)
    ELSE <<"text">> \o C9_Kinds(line, i + 1, quoted)

\* the positions of the separating commas, with 0 and Len + 1 as the ends
C9_Cuts(line) ==
    LET kinds == C9_Kinds(line, 1, FALSE)
    IN  {0, Len(line) + 1} \cup {i \in 1..Len(line) : kinds[i] = "separator"}

\* the characters a span of the line contributes to its field
RECURSIVE C9_Content(_, _, _, _)
C9_Content(line, kinds, from, to) ==
    IF from > to THEN << >>
    ELSE (IF kinds[from] \in {"text", "literal"} THEN <<line[from]>> ELSE << >>)
         \o C9_Content(line, kinds, from + 1, to)

\* C9: the tokenizer splits a line at a comma only outside a quoted span; an
\* unescaped quote toggles the span and is not part of the value; a doubled
\* quote inside a span gives one literal quote and does not end the span;
\* every field is trimmed.  A quoted field with a comma is one field.
C9_SplitsOnlyOutsideQuotes ==
    tpc = "tokenized"
    => LET kinds == C9_Kinds(tokLine, 1, FALSE)
           cuts  == C9_Cuts(tokLine)
       IN  /\ Len(tokValues) = Cardinality(cuts) - 1
           /\ \A a \in cuts, b \in cuts :
                 (a < b /\ \A c \in cuts : ~(a < c /\ c < b))
                 => tokValues[Cardinality({c \in cuts : c <= a})]
                      = Trim(C9_Content(tokLine, kinds, a + 1, b - 1))
           /\ \A k \in 1..Len(tokValues) : tokValues[k] = Trim(tokValues[k])

\* "a, a" is one field, a, a
C9_Witness ==
    /\ tpc = "tokenized"
    /\ tokLine = <<Quote, "a", ",", " ", "a", Quote>>
    /\ tokValues = <<(<<"a", ",", " ", "a">>)>>

----------------------------------------------------------------------------
(* Claims on the inventory load, checked under Spec *)

\* C4: of the rows loadAndNormalizeData(pyPath, cyPath, y) returns, each PY row
\* has seasonInfo = parseSeason(row.season, y - 1) and each CY row has
\* seasonInfo = parseSeason(row.season, y).
C4_PyRowsReadAgainstPreviousYear ==
    lpc = "returned"
    => \A k \in 1..Len(allRows) :
          /\ allRows[k].sourceYearType = "PY"
             => allRows[k].seasonInfo = parseSeason(allRows[k].season, ldYear - 1)
          /\ allRows[k].sourceYearType = "CY"
             => allRows[k].seasonInfo = parseSeason(allRows[k].season, ldYear)

----------------------------------------------------------------------------
(* Claims on the dashboard's load, checked under SpecDash *)

\* the rows of a sequence
RowsOf(seq) == {seq[k] : k \in 1..Len(seq)}

\* C5: in the dashboard's load with current fiscal year 25, a PY row and a CY
\* row of season 24F and country HK are classified differently: the PY row
\* against 24, InSeason, the CY row against 25, Y1; of the two only the CY row
\* passes isOffSeasonFW and is in filteredData.
C5_Same24FDiffersBySource ==
    (dpc \in {"graph", "target", "done"} /\ props.currentFwYear = 25)
    => \A row \in RowsOf(data) :
          (row.season = <<"2", "4", "F">> /\ row.country = <<"H", "K">>)
          => /\ row.seasonInfo.seasonType = "FW"
             /\ row.seasonInfo.seasonYear = 24
             /\ row.sourceYearType = "PY"
                => /\ row.seasonInfo.yearBucket = "InSeason"
                   /\ ~isOffSeasonFW(row)
                   /\ row \notin RowsOf(filteredDataOf(data))
             /\ row.sourceYearType = "CY"
                => /\ row.seasonInfo.yearBucket = "Y1"
                   /\ isOffSeasonFW(row)
                   /\ row \in RowsOf(filteredDataOf(data))

\* the load is over with one 24F HK row from each file, and filteredData
\* holds the CY one alone
C5_Witness ==
    /\ dpc = "done"
    /\ props.currentFwYear = 25
    /\ error = "null"
    /\ Len(data) = 2
    /\ data[1].sourceYearType = "PY" /\ data[1].season = <<"2", "4", "F">>
    /\ data[1].country = <<"H", "K">>
    /\ data[2].sourceYearType = "CY" /\ data[2].season = <<"2", "4", "F">>
    /\ data[2].country = <<"H", "K">>
    /\ Len(filteredDataOf(data)) = 1
    /\ filteredDataOf(data)[1] = data[2]

\* the explicit condition of a past-season record
C20_IsPastSeasonFW(row) ==
    /\ row.seasonInfo.seasonType = "FW"
    /\ row.seasonInfo.yearBucket \in {"Y1", "Y2", "Y3Plus"}

\* the inventory rows the past-season figures are computed from
C20_InventoryContributors ==
    LET filteredData == filteredDataOf(data)
    IN  RowsOf(filteredData) \cup RowsOf(cyOffSeasonFWOf(filteredData))
        \cup RowsOf(pyOffSeasonFWOf(filteredData))
        \cup RowsOf(cyFilteredOf(filteredData))

\* the graph rows summed into the monthly sales, the monthly inventory, the
\* monthly target status and the category analysis
C20_GraphContributors ==
    UNION {RowsOf(pyRowsOf(graphData, month)) \cup RowsOf(cyRowsOf(graphData, month))
           \cup RowsOf(monthlyStockRowsOf(graphData, month)) : month \in months}
    \cup UNION {RowsOf(calculateRowsOf(targetPeriodRowsOf(graphData, period_)))
                \cup RowsOf(categoryRowsOf(targetPeriodRowsOf(graphData, period_))) :
                period_ \in {<<"2", "5", "1", "1">>, <<"2", "5", "1", "2">>}}

\* C20: every inventory row in filteredData and every graph row summed into
\* the monthly sales, monthly inventory, monthly target status and category
\* analysis figures has seasonType FW and yearBucket Y1, Y2 or Y3Plus; no
\* InSeason row and no row of another season type is counted.
C20_OnlyPastSeasonFWCounted ==
    \A row \in C20_InventoryContributors \cup C20_GraphContributors :
        C20_IsPastSeasonFW(row)

\* the load is over; filteredData holds a row and leaves another out, and the
\* graph row of November 2025 is summed by the monthly figures and by the
\* target status
C20_Witness ==
    /\ dpc = "done"
    /\ filteredDataOf(data) # << >>
    /\ Len(filteredDataOf(data)) < Len(data)
    /\ Len(graphData) = 1
    /\ graphData[1] \in RowsOf(cyRowsOf(graphData, 11))
    /\ graphData[1] \in RowsOf(monthlyStockRowsOf(graphData, 11))
    /\ graphData[1] \in
          RowsOf(calculateRowsOf(targetPeriodRowsOf(graphData, <<"2", "5", "1", "1">>)))

----------------------------------------------------------------------------
(* Claims on the primitive parsers and the row decoder, checked under      *)
(* SpecDecode                                                              *)

\* the string fields of InventoryRowRaw, each with the column it is read from
C12_StringFields ==
    {<<"period", "period">>, <<"country", "Country">>,
     <<"itemCode", "ITEM CODE">>, <<"itemDesc1", "ITEM DESC1">>,
     <<"itemDesc2", "ITEM DESC2">>, <<"storeCode", "STORE">>,
     <<"storeName", "STORE NAME">>, <<"salesDiv", "SALES DIV">>,
     <<"season", "SEASON">>, <<"brand", "BRAND">>,
     <<"brandName", "BRAND NAME">>, <<"category", "CATEGORY">>,
     <<"categoryName", "CATEGORY NAME">>, <<"subcategory", "SUBCATEGORY">>,
     <<"subcategoryName", "SUBCATEGORY NAME">>}

\* the numeric fields of InventoryRowRaw, each with the columns it is read from
C12_NumericFields ==
    {<<"exRate", {"Ex-rate"}>>, <<"salesQty", {"Sales (Qty)"}>>,
     <<"acSalesQty", {"AC Sales (Qty)"}>>, <<"stockQty", {"Stock (Qty)"}>>,
     <<"netAcPC", {"Net AcP.C"}>>, <<"netAcPP", {"Net AcP.P"}>>,
     <<"acSalesCost",
       {"AC Sales\n(Cost)", "AC Sales (Cost)", "AC Sales\r\n(Cost)"}>>,
     <<"acSalesNetAmount",
       {"AC Sales\n(Net Amount)", "AC Sales (Net Amount)",
        "AC Sales\r\n(Net Amount)"}>>,
     <<"acSalesGross",
       {"AC Sales\n(Gross Sales)", "AC Sales (Gross Sales)",
        "AC Sales\r\n(Gross Sales)"}>>,
     <<"grossSalesMonth", {"Gross Sales ($)"}>>,
     <<"netSalesMonth", {"Net Sales ($)"}>>, <<"cogsMonth", {"COGS ($)"}>>,
     <<"stockCost", {"Stock Cost ($)"}>>,
     <<"stockPriceTag", {"Stock Price ($)"}>>}

\* a string, as opposed to null or undefined
C12_IsString(v) == v # Absent /\ \A k \in 1..Len(v) : v[k] # "null"

\* a number, as opposed to null, undefined or NaN
C12_IsNumber(v) == v # NullNum /\ v.den > 0

\* a cell with no digit in it: absent, empty, blank or unparseable
C12_NoDigits(row, column) ==
    column \in DOMAIN row => \A k \in 1..Len(row[column]) : row[column][k] \notin DigitChars

\* a cell that is absent, empty or blank
C12_Blank(row, column) ==
    column \in DOMAIN row => \A k \in 1..Len(row[column]) : row[column][k] = " "

\* the numeric fields are numbers, 0 when no column of theirs has a digit
C12_NumbersDefaultToZero ==
    \A f \in C12_NumericFields :
        /\ C12_IsNumber(decRaw[f[1]])
        /\ (\A column \in f[2] : C12_NoDigits(decRow, column))
           => decRaw[f[1]] = Rat(0, 1)

\* the string fields of the set are strings, empty when the cell is absent,
\* empty or blank
C12_StringsDefaultToEmpty(fields) ==
    \A f \in fields :
        /\ C12_IsString(decRaw[f[1]])
        /\ C12_Blank(decRow, f[2]) => decRaw[f[1]] = << >>

C13_IsUnsignedNumeral(s) ==
    /\ \E k \in 1..Len(s) : s[k] \in DigitChars
    /\ \A k \in 1..Len(s) : s[k] \in DigitChars \cup {"."}
    /\ Cardinality({k \in 1..Len(s) : s[k] = "."}) <= 1

\* whether s, an optional sign aside, is a numeral
C13_IsNumeral(s) ==
    IF s # << >> /\ s[1] \in {"-", "+"}
    THEN C13_IsUnsignedNumeral(Tail(s))
    ELSE C13_IsUnsignedNumeral(s)

\* the cell with every comma and every whitespace character removed
C13_Cleaned(value) ==
    SelectSeq(value, LAMBDA c : c # "," /\ ~IsSpace(c))

\* C13: parseNumber returns 0 for null, undefined, empty, whitespace-only and
\* every non-numeric input, and for a numeric input the number read after
\* every comma and every whitespace character is removed.
C13_ZeroUnlessNumeric ==
    dcpc = "parsed"
    => /\ C12_IsNumber(decNumber)
       /\ IF decValue # Absent /\ C13_IsNumeral(C13_Cleaned(decValue))
          THEN decNumber = ParseFloat(C13_Cleaned(decValue))
          ELSE decNumber = Rat(0, 1)

----------------------------------------------------------------------------
(* Claims on the batch loops, checked under SpecDash *)

\* the rows of a batch whose decode does not throw, in order
C14_Decodable(rows_) == SelectSeq(rows_, LAMBDA row : row # NullRow)

\* what each row mapping of the drawn files normalises to, by source tag
C14_InventoryRowOf ==
    [tag \in {"PY", "CY"} |->
        [row \in LoadRowKinds |-> NormalizedRow(row, tag, DashReferenceYear(tag))]]

C14_GraphRowOf ==
    [row \in GraphRowKinds |-> normalizeGraphDataRow(parseGraphCSVRow(row))]

C14_TargetRowOf ==
    [row \in TargetRowKinds |-> normalizeTargetDataRow(parseTargetCSVRow(row), 25)]

\* the normalised inventory rows of the decodable rows of a batch
C14_Inventory(rows_, tag) ==
    LET kept == C14_Decodable(rows_)
    IN  [k \in 1..Len(kept) |-> C14_InventoryRowOf[tag][kept[k]]]

\* the normalised graph rows of the decodable rows of a batch
C14_Graph(rows_) ==
    LET kept == C14_Decodable(rows_)
    IN  [k \in 1..Len(kept) |-> C14_GraphRowOf[kept[k]]]

\* the normalised target rows of the decodable rows of a batch
C14_Target(rows_) ==
    LET kept == C14_Decodable(rows_)
    IN  [k \in 1..Len(kept) |-> C14_TargetRowOf[kept[k]]]

\* C14: in each batch loop (the PY and CY inventory loops, parseGraphCSV,
\* parseTargetCSV) a row whose decode throws is skipped and every other row is
\* still processed: the output is exactly the rows that normalised, in order,
\* and no per-row exception reaches the caller.
C14_ThrowingRowsAreSkipped ==
    /\ dpc = "decodePY"
       => dAllRows = C14_Inventory(SubSeq(dPyRows, 1, dIndex), "PY")
    /\ dpc = "decodeCY"
       => dAllRows = C14_Inventory(dPyRows, "PY")
                     \o C14_Inventory(SubSeq(dCyRows, 1, dIndex), "CY")
    /\ dpc \in {"graph", "target", "done"}
       => data = C14_Inventory(dPyRows, "PY") \o C14_Inventory(dCyRows, "CY")
    /\ (dpc \in {"target", "done"} /\ graphFile.status = "ok")
       => graphData = C14_Graph(graphFile.rows)
    /\ (dpc = "done" /\ targetFile.status = "ok")
       => targetData = C14_Target(targetFile.rows)
    /\ (props.pyGiven /\ props.cyGiven) => error = "null"
    /\ (props.pyGiven /\ props.cyGiven /\ dpc = "done") => ~loading

\* a PY list of null and one 24F row, and a CY list of a row and null: the
\* load ends without error with the two rows that decode
C14_Witness ==
    /\ dpc = "done"
    /\ props.pyGiven /\ props.cyGiven
    /\ Len(props.pyRowsRaw) = 2
    /\ props.pyRowsRaw[1] = NullRow
    /\ props.pyRowsRaw[2] # NullRow
    /\ Len(props.cyRowsRaw) = 2
    /\ props.cyRowsRaw[1] # NullRow
    /\ props.cyRowsRaw[2] = NullRow
    /\ Len(data) = 2
    /\ data[1].sourceYearType = "PY"
    /\ data[2].sourceYearType = "CY"
    /\ error = "null"

----------------------------------------------------------------------------
(* Claims on the fetches of a load, checked under SpecLoads and Spec *)

\* whether loadAndNormalizeData has parsed or decoded anything
C15_LoaderHasDecoded ==
    \/ lpc \in {"decodePY", "decodeCY", "returned"}
    \/ ldPyRows # << >> \/ ldCyRows # << >> \/ allRows # << >>

\* whether loadData, started with two file paths, has parsed or decoded anything
C15_DashHasDecoded ==
    /\ props.pathsGiven /\ ~(props.pyGiven /\ props.cyGiven)
    /\ \/ dpc \in {"decodePY", "decodeCY", "graph", "target"}
       \/ dPyRows # << >> \/ dCyRows # << >> \/ dAllRows # << >> \/ data # << >>

\* C15: in an inventory load from two file paths the PY fetch and the CY fetch
\* may be in flight together, but nothing of either file is tokenized or
\* decoded before both fetches have completed.
C15_DecodeAfterBothFetches ==
    /\ C15_LoaderHasDecoded => (pyFetch = "text" /\ cyFetch = "text")
    /\ C15_DashHasDecoded => (dPyFetch = "text" /\ dCyFetch = "text")
    /\ (lpc = "fetching" /\ (pyFetch = "pending" \/ cyFetch = "pending"))
       => ~C15_LoaderHasDecoded
    /\ (dpc = "fetching" /\ (dPyFetch = "pending" \/ dCyFetch = "pending"))
       => ~C15_DashHasDecoded

\* the loader is decoding the CY rows of a two-row file after its PY rows,
\* both fetches having completed
C15_Witness ==
    /\ lpc = "decodeCY"
    /\ pyFetch = "text" /\ cyFetch = "text"
    /\ Len(ldPyRows) = 2 /\ Len(ldCyRows) = 2
    /\ ldIndex = 1
    /\ Len(allRows) = 3

----------------------------------------------------------------------------
(* Claims on the order of decoding, checked under SpecAnyOrder *)

\* the loop of lines 329-338 or 341-350 run from row k (from 1) to its end
RECURSIVE C16_LoopFrom(_, _, _, _, _)
C16_LoopFrom(rows_, k, out, tag, year) ==
    IF k > Len(rows_) THEN out
    ELSE C16_LoopFrom(rows_, k + 1,
             PushUnlessThrown(out, rows_[k],
                 NormalizedRow(rows_[k], tag, LoaderReferenceYear(tag, year))),
             tag, year)

\* all PY rows first, all CY rows afterwards
C16_InSequence ==
    C16_LoopFrom(ivCyRows, 1, C16_LoopFrom(ivPyRows, 1, << >>, "PY", ivYear),
                 "CY", ivYear)

\* how many times x occurs in seq
C16_Count(seq, x) == Cardinality({k \in 1..Len(seq) : seq[k] = x})

\* the rows of seq tagged with a source, in order
C16_Tagged(seq, tag) == SelectSeq(seq, LAMBDA row : row.sourceYearType = tag)

----------------------------------------------------------------------------
(* Claims on the returned collection, checked under Spec *)

\* whether the normalised row is the row of the file decoded with the tag:
\* it carries every field parseCSVRow reads from that row mapping
C17_IsRowOf(normalized, row, tag) ==
    LET raw == parseCSVRow(row, tag)
    IN  /\ normalized.sourceYearType = tag
        /\ \A field \in DOMAIN raw : normalized[field] = raw[field]

\* the first n rows of the PY file followed by the first m rows of the CY
\* file, each once, in file order, each under its own tag
C17_IsPyThenCy(seq, n, m) ==
    /\ Len(seq) = n + m
    /\ \A k \in 1..n : C17_IsRowOf(seq[k], pyFile.rows[k], "PY")
    /\ \A k \in 1..m : C17_IsRowOf(seq[n + k], cyFile.rows[k], "CY")

\* C17: the normalised inventory collection consists of the accepted PY rows
\* in file order, each with sourceYearType PY, followed by the accepted CY
\* rows in file order, each with sourceYearType CY; no row is reordered,
\* duplicated or tagged with the other source.
C17_PyThenCyInFileOrder ==
    /\ lpc = "decodePY" => C17_IsPyThenCy(allRows, ldIndex, 0)
    /\ lpc = "decodeCY" => C17_IsPyThenCy(allRows, Len(pyFile.rows), ldIndex)
    /\ lpc = "returned"
       => C17_IsPyThenCy(allRows, Len(pyFile.rows), Len(cyFile.rows))

\* two different PY rows and two different CY rows are returned in file order
C17_Witness ==
    /\ lpc = "returned"
    /\ Len(pyFile.rows) = 2 /\ pyFile.rows[1] # pyFile.rows[2]
    /\ Len(cyFile.rows) = 2 /\ cyFile.rows[1] # cyFile.rows[2]
    /\ pyFile.rows[1] = cyFile.rows[2]
    /\ Len(allRows) = 4
    /\ allRows[1].sourceYearType = "PY" /\ allRows[4].sourceYearType = "CY"
    /\ allRows[1].season = allRows[4].season
    /\ allRows[1].season # allRows[2].season

\* whether a path answers with a failure: a rejected fetch or a non-OK response
C19_Fails(file) == file.status \in {"notOk", "rejected"}

\* C19: each source file is fetched at most once per load and never retried:
\* when a fetch rejects or returns a non-OK response, loadCSVFile throws,
\* loadAndNormalizeData rejects with that failure without producing any rows,
\* and no second fetch of that file is issued.
C19_OneFetchPerFileNoRetry ==
    /\ fetches.PY <= 1 /\ fetches.CY <= 1
    /\ lpc # "start" => (fetches.PY = 1 /\ fetches.CY = 1)
    /\ pyFetch \in {"text", "thrown"} => (pyFetch = "thrown" <=> C19_Fails(pyFile))
    /\ cyFetch \in {"text", "thrown"} => (cyFetch = "thrown" <=> C19_Fails(cyFile))
    /\ (C19_Fails(pyFile) \/ C19_Fails(cyFile))
       => /\ lpc \notin {"decodePY", "decodeCY", "returned"}
          /\ ldPyRows = << >> /\ ldCyRows = << >> /\ allRows = << >>
    /\ lpc = "rejected" => (pyFetch = "thrown" \/ cyFetch = "thrown")
    /\ lpc = "returned" => (pyFetch = "text" /\ cyFetch = "text")

\* the PY path answers non-OK and the CY path serves two rows: the load has
\* rejected with each file fetched once and no row produced
C19_Witness ==
    /\ lpc = "rejected"
    /\ pyFile.status = "notOk"
    /\ cyFile.status = "ok" /\ Len(cyFile.rows) = 2
    /\ pyFetch = "thrown" /\ cyFetch = "text"
    /\ fetches = [PY |-> 1, CY |-> 1]
    /\ allRows = << >>

----------------------------------------------------------------------------
(* Claims on the outcome of the dashboard's load, checked under SpecDash *)

\* C18: in the dashboard's load, failing to acquire the graph file or the
\* target file (fetch rejected or response not OK) leaves that collection
\* empty and error null, while failing to acquire either primary inventory
\* file (PY or CY) ends the load with error non-null.
C18_PrimaryFailureIsAnError ==
    /\ (dpc \in {"target", "done"} /\ C19_Fails(graphFile))
       => (graphData = << >> /\ error = "null")
    /\ (dpc = "done" /\ C19_Fails(targetFile))
       => (targetData = << >> /\ error = "null")
    /\ (dpc = "done" /\ props.pathsGiven /\ ~(props.pyGiven /\ props.cyGiven)
        /\ (C19_Fails(props.pyFile) \/ C19_Fails(props.cyFile)))
       => error # "null"

----------------------------------------------------------------------------
(* Claims on the target decoder, checked under SpecDecode *)

\* whether the decoded target row carries the field with the number read
\* from the column of the row mapping
C21_Carries(field, column) ==
    /\ field \in DOMAIN decTarget
    /\ decTarget[field] = parseNumber(Cell(decRow, column))

\* C21: the target decoder supports both target CSV shapes: from a row with
\* an AMOUNT column the normalised row carries that amount, and from a row
\* with TAG_SALES, NET_SALES and DISCOUNT_RATE columns it carries tagSales,
\* netSales and discountRate, the fields the category analysis reads.
C21_BothTargetShapesDecoded ==
    dcpc = "targetDecoded"
    => /\ "AMOUNT" \in DOMAIN decRow => C21_Carries("amount", "AMOUNT")
       /\ "TAG_SALES" \in DOMAIN decRow
          => /\ C21_Carries("tagSales", "TAG_SALES")
             /\ C21_Carries("netSales", "NET_SALES")
             /\ C21_Carries("discountRate", "DISCOUNT_RATE")

----------------------------------------------------------------------------
(* Claims on structurally empty texts, checked under SpecCsv *)

\* how many lines of the text, from position i (from 1), hold a character
\* that is not white space; seen tells whether the line at i already does
RECURSIVE C22_NonBlankFrom(_, _, _)
C22_NonBlankFrom(text, i, seen) ==
    IF i > Len(text) THEN (IF seen THEN 1 ELSE 0)
    ELSE IF text[i] = LF
         THEN (IF seen THEN 1 ELSE 0) + C22_NonBlankFrom(text, i + 1, FALSE)
         ELSE C22_NonBlankFrom(text, i + 1, seen \/ ~IsSpace(text[i]))

\* C22: parseCSV returns an empty row sequence for every text with fewer than
\* two non-blank lines: the empty text, a text of blank lines only, and a
\* text with a header line and no data line.
C22_EmptyBelowTwoLines ==
    (cpc = "done" /\ C22_NonBlankFrom(csvText, 1, FALSE) < 2) => rows = << >>

\* a text of a header line and a blank line was parsed to no rows
C22_Witness ==
    /\ cpc = "done"
    /\ C22_NonBlankFrom(csvText, 1, FALSE) = 1
    /\ Len(SplitFrom(csvText, 1, << >>)) >= 2
    /\ rows = << >>

----------------------------------------------------------------------------
(* Claims on the emitted row mappings, checked under SpecCsv *)

\* the fields of the data line the loop of line 280 has just taken
C23_Values == parseCSVLine(Trim(lines[rowIndex]))

\* the i-th field of the line, or the empty string past its last field
C23_Field(i) == IF i <= Len(C23_Values) THEN C23_Values[i] ELSE << >>

\* the row emitted for the line just taken, when it emitted one
C23_Emitted == rows[Len(rows)]

\* whether the data line just taken emitted a row
C23_JustEmitted ==
    /\ cpc = "data"
    /\ rowIndex > headerEndIndex
    /\ Accepts(cleanedHeaders, C23_Values)

\* the statement as claimed: every header maps to the field at its own
\* position
C23_Original ==
    C23_JustEmitted
    => /\ DOMAIN C23_Emitted = {cleanedHeaders[i] : i \in 1..Len(cleanedHeaders)}
       /\ \A i \in 1..Len(cleanedHeaders) :
             C23_Emitted[cleanedHeaders[i]] = C23_Field(i)

\* C23: every row mapping parseCSV emits has exactly the cleaned header
\* names as its keys; a header name maps to the tokenized field at the
\* position of its last occurrence among the headers (its own position when
\* the names are distinct), and to the empty string when the line has no
\* field there; fields beyond the header count are discarded and the row is
\* emitted all the same.
C23_HeadersZippedLastNameWins ==
    C23_JustEmitted
    => /\ rows # << >>
       /\ DOMAIN C23_Emitted = {cleanedHeaders[i] : i \in 1..Len(cleanedHeaders)}
       /\ \A i \in 1..Len(cleanedHeaders) :
             (\A j \in (i + 1)..Len(cleanedHeaders) :
                 cleanedHeaders[j] # cleanedHeaders[i])
             => C23_Emitted[cleanedHeaders[i]] = C23_Field(i)

\* header a,b,c: the line x,y,z,w emitted a row without its fourth field, and
\* the line "x, y",z a row whose c is empty
C23_Witness ==
    /\ C23_JustEmitted
    /\ cleanedHeaders = <<(<<"a">>), (<<"b">>), (<<"c">>)>>
    /\ Len(rows) = 2
    /\ \E k \in 1..2 : Len(parseCSVLine(Trim(lines[headerEndIndex + k]))) = 4
    /\ \E k \in 1..2 : rows[k][<<"c">>] = << >>
    /\ Len(C23_Values) # 3

----------------------------------------------------------------------------
(* Claims on the header assembly, checked under SpecHeader *)

\* the rows of the lines from line k (from 1) to the last
RECURSIVE C24_RowsFrom(_)
C24_RowsFrom(k) ==
    IF k > Len(lines) THEN << >>
    ELSE LET values == parseCSVLine(Trim(lines[k]))
         IN  (IF Accepts(cleanedHeaders, values)
              THEN <<RowOf(cleanedHeaders, values)>> ELSE << >>)
             \o C24_RowsFrom(k + 1)

\* the header is the first lines of the text, five at most, and the data
\* rows are those of all the lines after them
C24_HeaderThenData ==
    /\ (cpc \in {"extend", "data", "done"} /\ Len(lines) >= 2)
       => /\ Len(headerLines) >= 1
          /\ Len(headerLines) <= 5
          /\ headerLines = SubSeq(lines, 1, Len(headerLines))
    /\ (cpc \in {"data", "done"} /\ Len(lines) >= 2)
       => headerEndIndex = Len(headerLines)
    /\ (cpc = "done" /\ Len(lines) >= 2)
       => rows = C24_RowsFrom(Len(headerLines) + 1)

\* how many statements parseCSV may still run: every step of parseCSV
\* lowers it, and it is 0 once parseCSV has returned
C24_StepsLeft ==
    CASE cpc = "start"  -> Len(csvText) + 9
      [] cpc = "scan"   -> Len(lines) + 7
      [] cpc = "extend" -> Len(lines) + 6 - currentLineIndex
      [] cpc = "data"   -> Len(lines) + 1 - rowIndex
      [] OTHER          -> 0

\* C24: header assembly in parseCSV always terminates and takes at most 5
\* lines (the first line and at most 4 appended ones), also when the quotes
\* never balance or the text ends first; the data rows begin at the line
\* right after the last header line, so no line is both a header line and a
\* data row and none between them is skipped.
C24_HeaderCappedAndTerminates ==
    /\ []C24_HeaderThenData
    /\ [](C24_StepsLeft >= 0 /\ (C24_StepsLeft = 0 <=> cpc = "done"))
    /\ [][C24_StepsLeft' < C24_StepsLeft]_vars

\* a text of seven lines whose first line opens a quote that never closes:
\* the header took five lines and the other two became rows
C24_Witness ==
    /\ cpc = "done"
    /\ Len(lines) = 7
    /\ inQuotes
    /\ Len(headerLines) = 5
    /\ Len(rows) = 2

----------------------------------------------------------------------------
(* Claims on the reference year of graph rows, checked under SpecFx *)

\* whether the first two characters of the string are the two given ones
C25_StartsWith(str, c1, c2) == Len(str) >= 2 /\ str[1] = c1 /\ str[2] = c2

\* C25: normalizeGraphDataRow classifies a graph row's season code against
\* reference year 24 when the Period starts with 24 and against 25 for every
\* other Period: in 2024 periods 24F is InSeason and 23F is Y1, in 2025
\* periods 25F is InSeason and 24F is Y1.
C25_GraphReferenceYearFromPeriod ==
    fpc = "graphNormalized"
    => LET period_ == fxGraphRaw.Period
           code    == fxGraphRaw.Season_Code
           bucket  == fxGraph.seasonInfo.yearBucket
       IN  /\ fxGraph.seasonInfo =
                 parseSeason(code, IF C25_StartsWith(period_, "2", "4")
                                   THEN 24 ELSE 25)
           /\ C25_StartsWith(period_, "2", "4")
              => /\ code = <<"2", "4", "F">> => bucket = "InSeason"
                 /\ code = <<"2", "3", "F">> => bucket = "Y1"
           /\ C25_StartsWith(period_, "2", "5")
              => /\ code = <<"2", "5", "F">> => bucket = "InSeason"
                 /\ code = <<"2", "4", "F">> => bucket = "Y1"

\* a 23F row of June 2024 was classified Y1
C25_Witness ==
    /\ fpc = "graphNormalized"
    /\ fxGraphRaw.Period = <<"2", "4", "0", "6">>
    /\ fxGraphRaw.Season_Code = <<"2", "3", "F">>
    /\ fxGraph.seasonInfo.yearBucket = "Y1"
    /\ fxGraph.seasonInfo.seasonYear = 23

----------------------------------------------------------------------------
(* Claims on the load effect, checked under SpecEffect *)

\* the props of two renders hand over the same PY and CY rows
C26_SameRows(p, q) ==
    /\ p.pyGiven = q.pyGiven /\ p.pyRowsRaw = q.pyRowsRaw
    /\ p.cyGiven = q.cyGiven /\ p.cyRowsRaw = q.cyRowsRaw
    /\ p.pathsGiven = q.pathsGiven
    /\ p.pyFile = q.pyFile /\ p.cyFile = q.cyFile

\* C26: the currentFwYear prop has no influence on classification: two loads
\* of the same PY and CY rows under different currentFwYear values decode to
\* identical inventory rows, a PY row of season 24F being InSeason (against
\* 24) and a CY row of season 24F being Y1 (against 25) whatever the prop.
C26_CurrentFwYearHasNoInfluence ==
    /\ \A i, j \in 1..Len(invocations) :
          C26_SameRows(invocations[i].props, invocations[j].props)
          => \/ invocations[i].at = "fetching"
             \/ invocations[j].at = "fetching"
             \/ invocations[i].allRows = invocations[j].allRows
    /\ \A i \in 1..Len(invocations) :
          \A k \in 1..Len(invocations[i].allRows) :
             LET row == invocations[i].allRows[k]
             IN  row.season = Str24F
                 => /\ row.sourceYearType = "PY"
                       => row.seasonInfo.yearBucket = "InSeason"
                    /\ row.sourceYearType = "CY"
                       => row.seasonInfo.yearBucket = "Y1"

C26_Witness ==
    /\ Len(invocations) = 2
    /\ invocations[1].props.currentFwYear # invocations[2].props.currentFwYear
    /\ C26_SameRows(invocations[1].props, invocations[2].props)
    /\ invocations[1].at = "done" /\ invocations[2].at = "done"
    /\ Len(invocations[2].allRows) = 2
    /\ invocations[2].allRows[1].sourceYearType = "PY"
    /\ invocations[2].allRows[2].sourceYearType = "CY"
    /\ invocations[2].allRows[1].season = Str24F
    /\ invocations[2].allRows[2].season = Str24F
    /\ data = invocations[1].allRows

\* the invocation started last
C29_Later == invocations[Len(invocations)]

\* every invocation started has run to its end
C29_AllSettled == \A i \in 1..Len(invocations) : invocations[i].at = "done"

\* the later invocation went down the success path
C29_LaterSucceeded ==
    \/ C29_Later.props.pyGiven /\ C29_Later.props.cyGiven
    \/ /\ C29_Later.props.pathsGiven
       /\ DashFetchResult(C29_Later.props.pyFile) = "text"
       /\ DashFetchResult(C29_Later.props.cyFile) = "text"

\* C29: when the load effect has run again while an earlier loadData was
\* still awaiting its fetches, then once both have settled data, graphData,
\* targetData, error and loading are those of the later invocation, and an
\* earlier invocation does not end loading while the later one is under way.
C29_LaterInvocationWins ==
    Len(invocations) = 2
    => /\ (C29_AllSettled /\ C29_LaterSucceeded)
          => /\ data = C29_Later.allRows
             /\ graphData = C29_Later.parsedGraphData
             /\ targetData = C29_Later.parsedTargetData
             /\ error = "null"
             /\ loading = FALSE
       /\ C29_Later.at # "done" => loading = TRUE

----------------------------------------------------------------------------
(* Claims on the end of a load, checked under SpecSettled *)

\* invocation i has run to its end
C30_Finished(i) == Len(invocations) >= i /\ invocations[i].at = "done"

\* C30: every loadData invocation whose awaited fetches settle runs to its
\* end, and the step that ends it (the last fetch settling, the rejection,
\* or the early return taken with neither rows nor paths) sets loading to
\* false; once every invocation has ended the dashboard is not loading.
C30_LoadingEnds ==
    /\ <>(invocations # << >>)
    /\ \A i \in 1..MaxInvocations :
          (Len(invocations) >= i) ~> C30_Finished(i)
    /\ [][\A i \in 1..MaxInvocations :
             (~C30_Finished(i) /\ C30_Finished(i)') => loading' = FALSE]_vars
    /\ []((invocations # << >> /\ C29_AllSettled) => loading = FALSE)

C30_Witness ==
    /\ Len(invocations) = 2
    /\ C29_AllSettled
    /\ invocations[1].props.pathsGiven
    /\ error = "Failed to fetch"
    /\ invocations[2].props.pyGiven /\ invocations[2].props.cyGiven
    /\ invocations[2].allRows # << >>
    /\ targetData # << >>
    /\ loading = FALSE

----------------------------------------------------------------------------
(* Claims on the App, checked under SpecApp *)

\* a row list is undefined, or a list with at least one row
C27_UndefinedOrNonEmpty(rowsRaw) ==
    IF rowsRaw.given THEN Len(rowsRaw.rows) >= 1 ELSE rowsRaw = Undefined

\* C27: in every reachable state of the App pyRowsRaw and cyRowsRaw are each
\* undefined or a non-empty list of rows, and the dashboard is on screen only
\* when both are defined and loading is false: never with one file alone and
\* never with a file without rows.
C27_DashboardNeedsBothFiles ==
    /\ C27_UndefinedOrNonEmpty(pyRowsRaw)
    /\ C27_UndefinedOrNonEmpty(cyRowsRaw)
    /\ DashboardRendered
       => /\ pyRowsRaw # Undefined /\ cyRowsRaw # Undefined
          /\ pyRowsRaw.rows # << >> /\ cyRowsRaw.rows # << >>
          /\ pyFileName # "" /\ cyFileName # ""
          /\ appLoading = FALSE

C27_Witness ==
    /\ DashboardRendered
    /\ pyFileName = "a.csv"
    /\ cyFileName = "b.csv"
    /\ appError = ParseFailedMessage

\* the read r ends in this step
C28_Ends(r) == r \in reading /\ r \notin reading'

\* C28: when an uploaded file parses to no row, or cannot be read, the
\* handler sets error to a message and leaves pyRowsRaw, cyRowsRaw,
\* pyFileName and cyFileName as they were.
C28_FailedUploadKeepsData ==
    [][\A file \in UploadFiles, type \in {"PY", "CY"} :
          (/\ C28_Ends([file |-> file, type |-> type])
           /\ ~file.readable \/ file.rows = << >>)
          => /\ appError' = IF file.readable THEN ParseFailedMessage
                            ELSE ReadFailedMessage
             /\ UNCHANGED <<pyRowsRaw, cyRowsRaw, pyFileName, cyFileName>>]_vars

C28_Witness ==
    /\ pyRowsRaw = Defined(<<Row24FHK>>)
    /\ pyFileName = "a.csv"
    /\ cyRowsRaw = Undefined
    /\ appError = ReadFailedMessage
    /\ reading = {}

====
